---- MODULE Spec2Model ----
(***************************************************************************)
(* Model of BerlinFlatBot: the dedup cache (scrapers/cache.py), the        *)
(* retry/backoff policy (scrapers/base.py) and the monitoring loop         *)
(* (bot.py).                                                               *)
(***************************************************************************)
EXTENDS Integers, Sequences, FiniteSets, TLC

VARIABLES
    \* scrapers/cache.py: the module's globals and the cache file
    seen_flat_ids, cache_modified, cache_write_counter, cache_file,
    \* history: the last operation performed and what it returned
    ev,
    \* history: load_seen_flats has completed once (the startup load)
    loaded,
    \* history, per id: "unmarked" (never marked), "marked" (marked since the
    \* last reset_seen_flats) or "cleared" (marked once, then reset)
    marked,
    \* datetime.now(), in seconds
    now,
    \* scrapers/base.py, per scraper: BaseScraper's health state
    last_error_time, error_count, backoff_time,
    \* per scraper and caller: the position of the caller's _make_request
    call,
    \* history: the last step of a _make_request and its outcome
    rq,
    \* history, per scraper: the failed requests since the last 200
    failures,
    \* history, per scraper: the run of consecutive 429 answers of the server
    streak,
    \* bot.py: the position of FlatMonitor.monitor
    pc,
    \* FlatMonitor.current_flats, buffered_flats, website_statuses
    current_flats, buffered_flats, website_statuses,
    \* the local new_flats of the monitoring loop
    new_flats,
    \* history: the snapshot the monitoring loop has assigned to
    \* current_flats last (the initial fetch or its previous cycle)
    baseline,
    \* datetime.now().hour
    hour,
    \* history: the ids the loop handed to send_update as new since the last
    \* /clear, those it handed over more than once, and the flats sent to the
    \* chat
    forwarded, reforwarded, delivered,
    \* history: the last run of fetch_all_flats: what each scraper's request
    \* ended with, what each fetch_flats returned or raised, and the scrapers
    \* in the order they were tried
    fanout,
    \* bot.py: the position of main() and whether the shutdown has executed
    \* save_seen_flats(force=True)
    main,
    \* the seed of the process's string hash (PYTHONHASHSEED)
    hashseed,
    \* history: the last run of a scraper's extraction: the scraper, the
    \* candidates of the payload and what fetch_flats made of them
    extracted,
    \* history, per upstream listing: the ids the extractors have derived
    \* for it so far
    derived,
    \* history: the last call of check_wbs_required: the text and the answer
    checked

cacheVars == <<seen_flat_ids, cache_modified, cache_write_counter, cache_file>>
cacheHist == <<ev, loaded, marked>>
healthVars == <<last_error_time, error_count, backoff_time>>
backoffVars == <<now, last_error_time, error_count, backoff_time, call, rq,
                 failures, streak>>
\* the state of FlatMonitor and of its monitoring loop
loopVars == <<pc, current_flats, buffered_flats, website_statuses, new_flats,
              hour, forwarded, reforwarded, delivered, fanout, baseline>>
monitorVars == <<loopVars, main>>
extractVars == <<hashseed, extracted, derived, checked>>
vars == <<seen_flat_ids, cache_modified, cache_write_counter, cache_file,
          ev, loaded, marked,
          now, last_error_time, error_count, backoff_time, call, rq, failures,
          streak,
          pc, current_flats, buffered_flats, website_statuses, new_flats, hour,
          forwarded, reforwarded, delivered, fanout, baseline, main,
          hashseed, extracted, derived, checked>>

\* what the operations of the cache leave alone
notCache == <<backoffVars, monitorVars, extractVars>>
\* what the retry/backoff policy leaves alone
notBackoff == <<cacheVars, cacheHist, monitorVars, extractVars>>
\* what the bot leaves alone: the health state of the scrapers, which only
\* _make_request touches, and the history of the extractions
notBot == <<backoffVars, extractVars>>

(***************************************************************************)
(* Bounds of the model                                                     *)
(***************************************************************************)
\* number of distinct listing ids the cache operations are exercised with
MaxIds == 11
\* the clock stops at MaxTime seconds
MaxTime == 1500
\* the monitoring loop is followed while the buffer holds at most MaxBuffer
\* flats
MaxBuffer == 2
\* the run of consecutive 429 answers is counted up to MaxStreak
MaxStreak == 3

\* Program constants
CACHE_WRITE_THRESHOLD == 10
InitialBackoff == 60
max_backoff_time == 3600
max_retries == 3

Ids == 1..MaxIds

(***************************************************************************)
(* The cache file /dev/shm/seen_flats_cache.json.  Its content is a JSON   *)
(* document or something that is not one:                                  *)
(*   missing      the file does not exist                                  *)
(*   unreadable   open() raises IOError                                    *)
(*   invalid      json.load raises JSONDecodeError                         *)
(*   number       a JSON number                                            *)
(*   string       a JSON string; ids are its characters                    *)
(*   array        a bare JSON array of ids                                 *)
(*   object       {"seen_ids": [...]}                                      *)
(*   object_nokey a JSON object without the key "seen_ids"                 *)
(*   object_num   {"seen_ids": <number>}                                   *)
(***************************************************************************)
FileKinds == {"missing", "unreadable", "invalid", "number", "string",
              "array", "object", "object_nokey", "object_num"}

File(k, l) == [kind |-> k, ids |-> l]

\* The files the process may find at startup.
InitFiles ==
    {File(k, <<>>) : k \in {"missing", "unreadable", "invalid", "number",
                            "object_nokey", "object_num"}}
    \cup {File("string", <<1, 2>>)}
    \cup {File(k, l) : k \in {"array", "object"},
                       l \in {<<>>, <<1, 2>>, <<2, 1, 2>>, <<3>>}}

\* set(l) for a list l
ListToSet(l) == {l[i] : i \in DOMAIN l}

\* list(s) for a set s of ids: Python leaves the order of the elements
\* unspecified; the model produces the ascending or the descending order.
RECURSIVE Ascending(_)
Ascending(s) ==
    IF s = {} THEN <<>>
    ELSE LET m == CHOOSE x \in s : \A y \in s : x <= y
         IN <<m>> \o Ascending(s \ {m})

Reverse(l) == [i \in 1..Len(l) |-> l[Len(l) + 1 - i]]

\* a listing of the set that leaves its smallest element out
list_without_first(s, rev) ==
    IF s = {} THEN <<>>
    ELSE IF rev THEN Reverse(Tail(Ascending(s))) ELSE Tail(Ascending(s))

SetToList(s, rev) == IF rev THEN Reverse(Ascending(s)) ELSE Ascending(s)

(***************************************************************************)
(* scrapers/cache.py.  A cache state c is the record of the module's       *)
(* globals and of the file:                                                *)
(*   seen     _seen_flat_ids                                               *)
(*   modified _cache_modified                                              *)
(*   counter  _cache_write_counter                                         *)
(*   file     the content of _SEEN_FLATS_CACHE_FILE                        *)
(* Every operation returns the new cache state, extended by                *)
(*   raised   an exception left the function                               *)
(*   wrote    the function wrote the file                                  *)
(***************************************************************************)
Cache(s, m, n, f) == [seen |-> s, modified |-> m, counter |-> n, file |-> f]

Outcome(c, r, w) ==
    [seen |-> c.seen, modified |-> c.modified, counter |-> c.counter,
     file |-> c.file, raised |-> r, wrote |-> w]

\* the type json.load returns for the file
JsonType(f) ==
    CASE f.kind = "array" -> "list"
      [] f.kind \in {"object", "object_nokey", "object_num"} -> "dict"
      [] f.kind = "number" -> "int"
      [] f.kind = "string" -> "str"
      [] OTHER -> "none"

\* set(x) raises TypeError unless x is iterable
Iterable(t) == t \in {"list", "str"}

\* a load that reads the wrapper object under the wrong key
load_wrong_key(c) ==
    IF c.file.kind \in {"missing", "unreadable", "invalid"}
    THEN Outcome(Cache({}, FALSE, 0, c.file), FALSE, FALSE)
    ELSE IF JsonType(c.file) = "dict"
    THEN Outcome(Cache({}, FALSE, 0, c.file), FALSE, FALSE)
    ELSE IF Iterable(JsonType(c.file))
    THEN Outcome(Cache(ListToSet(c.file.ids), FALSE, 0, c.file), FALSE, FALSE)
    ELSE Outcome(c, TRUE, FALSE)

load_seen_flats(c) ==
    IF c.file.kind # "missing"
    THEN IF c.file.kind \in {"unreadable", "invalid"}
         THEN \* except (json.JSONDecodeError, IOError)
              Outcome(Cache({}, FALSE, 0, c.file), FALSE, FALSE)
         ELSE IF JsonType(c.file) = "dict"
              THEN IF c.file.kind = "object_num"
                   THEN \* set(<number>): TypeError, not caught
                        Outcome(c, TRUE, FALSE)
                   ELSE IF c.file.kind = "object_nokey"
                        THEN Outcome(Cache({}, FALSE, 0, c.file), FALSE, FALSE)
                        ELSE Outcome(Cache(ListToSet(c.file.ids), FALSE, 0, c.file),
                                     FALSE, FALSE)
              ELSE IF Iterable(JsonType(c.file))
                   THEN Outcome(Cache(ListToSet(c.file.ids), FALSE, 0, c.file),
                                FALSE, FALSE)
                   ELSE \* set(<number>): TypeError, not caught
                        Outcome(c, TRUE, FALSE)
    ELSE Outcome(Cache({}, FALSE, 0, c.file), FALSE, FALSE)

\* a save that empties the in-memory set once it has written it
save_flushes_set(c, force, io, rev) ==
    IF (~force) /\ ((~c.modified) \/ c.counter < CACHE_WRITE_THRESHOLD)
    THEN Outcome(c, FALSE, FALSE)
    ELSE IF io = "ok"
    THEN Outcome(Cache({}, FALSE, 0, File("array", SetToList(c.seen, rev))),
                 FALSE, TRUE)
    ELSE Outcome(c, FALSE, FALSE)

\* a save that gives the pending ids up when the write fails
save_forgets_on_failure(c, force, io, rev) ==
    IF (~force) /\ (~c.modified)
    THEN Outcome(c, FALSE, FALSE)
    ELSE IF (~force) /\ c.counter < CACHE_WRITE_THRESHOLD
    THEN Outcome(c, FALSE, FALSE)
    ELSE IF io = "ok"
    THEN Outcome(Cache(c.seen, FALSE, 0, File("array", SetToList(c.seen, rev))),
                 FALSE, TRUE)
    ELSE IF io = "write_fails"
    THEN Outcome(Cache(c.seen, FALSE, 0, File("invalid", <<>>)), FALSE, FALSE)
    ELSE Outcome(Cache(c.seen, FALSE, 0, c.file), FALSE, FALSE)

\* a save that clears the flag but keeps the counter of pending writes
save_keeps_counter(c, force, io, rev) ==
    IF (~force) /\ (~c.modified)
    THEN Outcome(c, FALSE, FALSE)
    ELSE IF (~force) /\ c.counter < CACHE_WRITE_THRESHOLD
    THEN Outcome(c, FALSE, FALSE)
    ELSE IF io = "ok"
    THEN Outcome(Cache(c.seen, FALSE, c.counter,
                       File("array", SetToList(c.seen, rev))), FALSE, TRUE)
    ELSE IF io = "write_fails"
    THEN Outcome(Cache(c.seen, c.modified, c.counter, File("invalid", <<>>)),
                 FALSE, FALSE)
    ELSE Outcome(c, FALSE, FALSE)

\* io: "ok", "open_fails" (open() raises IOError, file untouched) or
\* "write_fails" (the file was truncated by open() and the write raised).
\* rev: the order list(_seen_flat_ids) happens to have.
save_seen_flats(c, force, io, rev) ==
    IF (~force) /\ (~c.modified)
    THEN Outcome(c, FALSE, FALSE)
    ELSE IF (~force) /\ c.counter < CACHE_WRITE_THRESHOLD
    THEN Outcome(c, FALSE, FALSE)
    ELSE IF io = "ok"
    THEN Outcome(Cache(c.seen, FALSE, 0, File("array", SetToList(c.seen, rev))),
                 FALSE, TRUE)
    ELSE IF io = "write_fails"
    THEN Outcome(Cache(c.seen, c.modified, c.counter, File("invalid", <<>>)),
                 FALSE, FALSE)
    ELSE Outcome(c, FALSE, FALSE)

\* a reset that deletes the file and clears the flags but keeps the set
reset_keeps_set(c, unlink_ok) ==
    IF c.file.kind # "missing" /\ unlink_ok
    THEN Outcome(Cache(c.seen, FALSE, 0, File("missing", <<>>)), FALSE, FALSE)
    ELSE Outcome(Cache(c.seen, FALSE, 0, c.file), FALSE, FALSE)

\* unlink_ok: cache_file.unlink() succeeds
reset_seen_flats(c, unlink_ok) ==
    IF c.file.kind # "missing" /\ unlink_ok
    THEN Outcome(Cache({}, FALSE, 0, File("missing", <<>>)), FALSE, FALSE)
    ELSE Outcome(Cache({}, FALSE, 0, c.file), FALSE, FALSE)

\* a mark that counts an id again that the set already holds
mark_counts_known_ids(c, flat_id) ==
    Outcome(Cache(c.seen \cup {flat_id}, TRUE, c.counter + 1, c.file),
            FALSE, FALSE)

mark_flat_seen(c, flat_id) ==
    IF flat_id \notin c.seen
    THEN Outcome(Cache(c.seen \cup {flat_id}, TRUE, c.counter + 1, c.file),
                 FALSE, FALSE)
    ELSE Outcome(c, FALSE, FALSE)

\* flats: the list of the ids of the flats
RECURSIVE mark_flats_as_seen(_, _)
mark_flats_as_seen(c, flats) ==
    IF flats = <<>>
    THEN Outcome(c, FALSE, FALSE)
    ELSE LET flat_id == Head(flats)
             d == IF flat_id \notin c.seen
                  THEN Cache(c.seen \cup {flat_id}, TRUE, c.counter + 1, c.file)
                  ELSE Cache(c.seen, c.modified, c.counter, c.file)
         IN mark_flats_as_seen(d, Tail(flats))

is_flat_seen(c, flat_id) == flat_id \in c.seen

\* the ids single marks and queries are made with
SingleIds == {1, 2, 3}

\* the lists mark_flats_as_seen is called with
Batches == {<<1, 1, 2>>, <<>>,
            [i \in 1..(MaxIds - 2) |-> i + 2],
            [i \in 1..MaxIds |-> i]}

CacheNow == Cache(seen_flat_ids, cache_modified, cache_write_counter, cache_file)

SetCache(o) ==
    /\ seen_flat_ids' = o.seen
    /\ cache_modified' = o.modified
    /\ cache_write_counter' = o.counter
    /\ cache_file' = o.file

Event(op, id, force, o, ret) ==
    [op |-> op, id |-> id, force |-> force, raised |-> o.raised,
     wrote |-> o.wrote, ret |-> ret]

NoEvent ==
    [op |-> "none", id |-> 0, force |-> FALSE, raised |-> FALSE,
     wrote |-> FALSE, ret |-> FALSE]

\* the cache module when it has been imported, the file being one of files
InitCacheVars(files) ==
    /\ seen_flat_ids = {}
    /\ cache_modified = FALSE
    /\ cache_write_counter = 0
    /\ cache_file \in files
    /\ ev = NoEvent
    /\ loaded = FALSE
    /\ marked = [x \in Ids |-> "unmarked"]

(***************************************************************************)
(* scrapers/base.py: BaseScraper's retry/backoff policy.  A health state h *)
(* is the record of a scraper's last_error_time (<<>> for None, <<t>> for  *)
(* the time t), error_count and backoff_time.                              *)
(***************************************************************************)
NoTime == <<>>

Health(t, n, b) == [last_error_time |-> t, error_count |-> n, backoff_time |-> b]

\* BaseScraper.__init__
NewHealth == Health(NoTime, 0, InitialBackoff)

Min(a, b) == IF a < b THEN a ELSE b

RECURSIVE Pow2(_)
Pow2(n) == IF n = 0 THEN 1 ELSE 2 * Pow2(n - 1)

\* a cool-down test that compares with the initial backoff time
check_backoff_initial(h, t) ==
    IF h.last_error_time = NoTime
    THEN FALSE
    ELSE (t - h.last_error_time[1]) < InitialBackoff

\* a cool-down test that still rejects when exactly backoff_time seconds
\* have passed
check_backoff_inclusive(h, t) ==
    IF h.last_error_time = NoTime
    THEN FALSE
    ELSE (t - h.last_error_time[1]) <= h.backoff_time

\* _check_backoff at the time t
check_backoff(h, t) ==
    IF h.last_error_time = NoTime
    THEN FALSE
    ELSE IF (t - h.last_error_time[1]) < h.backoff_time
         THEN TRUE
         ELSE FALSE

\* a backoff update that doubles without the ceiling
update_backoff_uncapped(h, t) ==
    Health(<<t>>, h.error_count + 1, h.backoff_time * 2)

\* a backoff update that adds the initial backoff time instead of doubling
update_backoff_linear(h, t) ==
    Health(<<t>>, h.error_count + 1,
           Min(h.backoff_time + InitialBackoff, max_backoff_time))

\* a backoff update that does not count the error
update_backoff_no_count(h, t) ==
    Health(<<t>>, h.error_count, Min(h.backoff_time * 2, max_backoff_time))

\* _update_backoff at the time t
update_backoff(h, t) ==
    Health(<<t>>, h.error_count + 1, Min(h.backoff_time * 2, max_backoff_time))

\* a reset that keeps the backoff duration reached
reset_backoff_keeps_duration(h) == Health(NoTime, 0, h.backoff_time)

\* a reset that keeps the time of the last failure
reset_backoff_keeps_time(h) == Health(h.last_error_time, 0, InitialBackoff)

\* _reset_backoff
reset_backoff(h) == Health(NoTime, 0, InitialBackoff)

\* what one attempt of session.request can end with: a response with a
\* status, asyncio.TimeoutError or aiohttp.ClientError
Responses == {"200", "503", "429", "404", "500", "timeout", "client_error"}

\* The scrapers that fetch through _make_request, and their callers: the
\* monitoring loop and a command handler run as concurrent tasks.
BackoffScrapers == {"DegewoScraper", "GesobauScraper"}
Callers == {"monitor", "command"}

\* every scraper is a BaseScraper and has a health state, also the one
\* whose fetch_flats does not go through _make_request
HealthScrapers == BackoffScrapers \cup {"InBerlinWohnenScraper"}

Idle == [pc |-> "idle", attempt |-> 0, sent |-> 0]

\* a health state that all scrapers share (attributes of the class)
health_of_class(s) ==
    Health(last_error_time["DegewoScraper"], error_count["DegewoScraper"],
           backoff_time["DegewoScraper"])

HealthOf(s) == Health(last_error_time[s], error_count[s], backoff_time[s])

SetHealth(s, h) ==
    /\ last_error_time' = [last_error_time EXCEPT ![s] = h.last_error_time]
    /\ error_count' = [error_count EXCEPT ![s] = h.error_count]
    /\ backoff_time' = [backoff_time EXCEPT ![s] = h.backoff_time]

Request(op, s, c, status, raised, retry_in, sent, prev, run) ==
    [op |-> op, scraper |-> s, caller |-> c, status |-> status,
     raised |-> raised, retry_in |-> retry_in, sent |-> sent,
     prev_errors |-> prev, prev_429 |-> run]

NoRequest == Request("none", "none", "none", "none", "none", 0, 0, 0, 0)

\* the run of consecutive 429 answers after the server has answered r; a
\* timeout or a connection error is no answer
Answered(n, r) ==
    IF r \in {"timeout", "client_error"} THEN n
    ELSE IF r = "429" THEN Min(n + 1, MaxStreak)
    ELSE 0

\* a test of the last attempt that lets the loop run one pass more
last_attempt_one_late(attempt) == attempt = max_retries

\* `if attempt == self.max_retries - 1`
last_attempt(attempt) == attempt = max_retries - 1

InitBackoffVars ==
    /\ now = 0
    /\ last_error_time = [s \in HealthScrapers |-> NewHealth.last_error_time]
    /\ error_count = [s \in HealthScrapers |-> NewHealth.error_count]
    /\ backoff_time = [s \in HealthScrapers |-> NewHealth.backoff_time]
    /\ call = [s \in BackoffScrapers |-> [c \in Callers |-> Idle]]
    /\ rq = NoRequest
    /\ failures = [s \in BackoffScrapers |-> 0]
    /\ streak = [s \in BackoffScrapers |-> 0]

\* _make_request is entered: the cool-down test, and the exception it raises
Invoke(s, c) ==
    /\ call[s][c].pc = "idle"
    /\ IF check_backoff(HealthOf(s), now)
       THEN /\ rq' = Request("invoke", s, c, "none", "WebsiteUnavailableError",
                             backoff_time[s], 0, error_count[s], streak[s])
            /\ UNCHANGED call
       ELSE /\ rq' = Request("invoke", s, c, "none", "none", 0, 0,
                             error_count[s], streak[s])
            /\ call' = [call EXCEPT ![s][c] =
                            [pc |-> "attempt", attempt |-> 0, sent |-> 0]]
    /\ UNCHANGED <<now, healthVars, failures, streak, notBackoff>>

\* one pass of the loop `for attempt in range(self.max_retries)`:
\* session.request ends with the response r
Attempt(s, c, r) ==
    LET a == call[s][c].attempt
        n == call[s][c].sent + 1
        h == HealthOf(s)
    IN
    /\ call[s][c].pc = "attempt"
    /\ streak' = [streak EXCEPT ![s] = Answered(@, r)]
    /\ IF r = "200"
       THEN /\ SetHealth(s, reset_backoff(h))
            /\ failures' = [failures EXCEPT ![s] = 0]
            /\ call' = [call EXCEPT ![s][c] = Idle]
            /\ rq' = Request("response", s, c, r, "none", 0, n, h.error_count,
                             streak[s])
       ELSE IF r \in {"503", "429"}
       THEN /\ SetHealth(s, update_backoff(h, now))
            /\ failures' = [failures EXCEPT ![s] = @ + 1]
            /\ call' = [call EXCEPT ![s][c] = Idle]
            /\ rq' = Request("response", s, c, r, "HighTrafficError", 0, n,
                             h.error_count, streak[s])
       ELSE IF r \notin {"timeout", "client_error"}
       THEN /\ SetHealth(s, update_backoff(h, now))
            /\ failures' = [failures EXCEPT ![s] = @ + 1]
            /\ call' = [call EXCEPT ![s][c] = Idle]
            /\ rq' = Request("response", s, c, r, "WebsiteUnavailableError", 0,
                             n, h.error_count, streak[s])
       ELSE IF last_attempt(a)
       THEN /\ SetHealth(s, update_backoff(h, now))
            /\ failures' = [failures EXCEPT ![s] = @ + 1]
            /\ call' = [call EXCEPT ![s][c] = Idle]
            /\ rq' = Request("response", s, c, r, "WebsiteUnavailableError", 0,
                             n, h.error_count, streak[s])
       ELSE \* await asyncio.sleep(2**attempt), then the next attempt
            /\ call' = [call EXCEPT ![s][c] =
                            [pc |-> "attempt", attempt |-> a + 1, sent |-> n]]
            /\ rq' = Request("retry", s, c, r, "none", Pow2(a), n,
                             h.error_count, streak[s])
            /\ UNCHANGED <<healthVars, failures>>
    /\ UNCHANGED <<now, notBackoff>>

\* time passes
TickSteps == {60, 600}

Tick ==
    \E d \in TickSteps :
        /\ now + d <= MaxTime
        /\ now' = now + d
        /\ UNCHANGED <<healthVars, call, rq, failures, streak, notBackoff>>

MakeRequest == \E c \in Callers : Invoke("DegewoScraper", c)

Respond == \E c \in Callers, r \in Responses : Attempt("DegewoScraper", c, r)

\* fetch_all_flats: the loop calls fetch_flats of one scraper after the
\* other, so one _make_request of the caller is under way at a time
MakeRequestOfAny ==
    \E s \in BackoffScrapers :
        /\ \A other \in BackoffScrapers : call[other]["monitor"].pc = "idle"
        /\ Invoke(s, "monitor")

RespondToAny ==
    \E s \in BackoffScrapers, r \in Responses : Attempt(s, "monitor", r)

\* time passes in steps of ten minutes
LongTick ==
    /\ now + 600 <= MaxTime
    /\ now' = now + 600
    /\ UNCHANGED <<healthVars, call, rq, failures, streak, notBackoff>>

(***************************************************************************)
(* bot.py: FlatMonitor.  A flat is the record of a FlatDetails' id, source,*)
(* details["rooms"] ("" when the key is absent) and wbs_required.          *)
(***************************************************************************)
Flat(id, src, rooms, wbs) ==
    [id |-> id, source |-> src, rooms |-> rooms, wbs_required |-> wbs]

\* FlatMonitor.scrapers
Scrapers == <<"InBerlinWohnenScraper">>

\* the listings the site of InBerlinWohnen shows at one time or another
F1 == Flat(1, "InBerlinWohnen", "2", FALSE)
F2 == Flat(2, "InBerlinWohnen", "", FALSE)
F3 == Flat(3, "InBerlinWohnen", "1,5", FALSE)
F4 == Flat(4, "InBerlinWohnen", "3", TRUE)
\* the listing 2 as the site shows it when its data has "rooms": 0
F5 == Flat(2, "InBerlinWohnen", "0", FALSE)

\* the candidates a page yields before _filter_duplicates
Pages == {<<>>, <<F1>>, <<F1, F2, F1>>, <<F2, F3>>, <<F3, F4>>, <<F4, F5>>}

\* what the request of fetch_flats ends with: a page (status 200), another
\* status, a page with the high-traffic message, asyncio.TimeoutError or
\* aiohttp.ClientError raised by session.get ("timeout"), or a page whose
\* parsing raises ("exception")
Upstream ==
    {[kind |-> "page", flats |-> p] : p \in Pages}
    \cup {[kind |-> k, flats |-> <<>>] : k \in {"status", "high_traffic",
                                                "timeout", "exception"}}

FlatIds(flats) == {flats[i].id : i \in DOMAIN flats}

\* BaseScraper._filter_duplicates
RECURSIVE FilterFrom(_, _)
FilterFrom(flats, seen_in_batch) ==
    IF flats = <<>>
    THEN <<>>
    ELSE IF Head(flats).id \notin seen_in_batch
         THEN <<Head(flats)>>
                \o FilterFrom(Tail(flats), seen_in_batch \cup {Head(flats).id})
         ELSE FilterFrom(Tail(flats), seen_in_batch)

\* a filter that keeps the last occurrence of every id
filter_keeps_last(flats) == Reverse(FilterFrom(Reverse(flats), {}))

filter_duplicates(flats) == FilterFrom(flats, {})

Result(raised, msg, flats) == [raised |-> raised, msg |-> msg, flats |-> flats]

\* a fetch that leaves out the flats whose id is in the seen set
fetch_flats_unseen_only(up) ==
    CASE up.kind = "status" ->
            Result("WebsiteUnavailableError", "Website unavailable. Status: 500",
                   <<>>)
      [] up.kind = "high_traffic" ->
            Result("HighTrafficError", "Website experiencing high traffic", <<>>)
      [] up.kind \in {"timeout", "exception"} ->
            Result("none", "", <<>>)
      [] OTHER ->
            Result("none", "",
                   SelectSeq(FilterFrom(up.flats, {}),
                             LAMBDA flat : flat.id \notin seen_flat_ids))

\* InBerlinWohnenScraper.fetch_flats, the request ending with up
fetch_flats(up) ==
    CASE up.kind = "status" ->
            Result("WebsiteUnavailableError", "Website unavailable. Status: 500",
                   <<>>)
      [] up.kind = "high_traffic" ->
            Result("HighTrafficError", "Website experiencing high traffic", <<>>)
      [] up.kind \in {"timeout", "exception"} ->
            \* except Exception: return []
            Result("none", "", <<>>)
      [] OTHER ->
            Result("none", "", filter_duplicates(up.flats))

\* the status text fetch_all_flats records for a result
StatusText(r) ==
    CASE r.raised = "none" -> "Available"
      [] r.raised \in {"WebsiteUnavailableError", "HighTrafficError"} -> r.msg
      [] r.raised = "TimeoutError" -> "Timeout - Website not responding"
      [] OTHER -> "Error: " \o r.msg

\* a fan-out that gives up at the first scraper that raises
RECURSIVE FetchFromStops(_, _, _, _)
FetchFromStops(i, scrapers, results, acc) ==
    IF i > Len(scrapers)
    THEN acc
    ELSE IF results[i].raised = "none"
    THEN FetchFromStops(i + 1, scrapers, results,
             [flats |-> acc.flats \o results[i].flats,
              statuses |-> [acc.statuses EXCEPT
                               ![scrapers[i]] = StatusText(results[i])],
              attempted |-> Append(acc.attempted, scrapers[i])])
    ELSE [flats |-> acc.flats,
          statuses |-> [acc.statuses EXCEPT
                           ![scrapers[i]] = StatusText(results[i])],
          attempted |-> Append(acc.attempted, scrapers[i])]

\* FlatMonitor.fetch_all_flats from the i-th scraper on; results[i] is the
\* result of scrapers[i].fetch_flats(); acc holds all_flats, the statuses
\* and the scrapers tried so far
RECURSIVE FetchFrom(_, _, _, _)
FetchFrom(i, scrapers, results, acc) ==
    IF i > Len(scrapers)
    THEN acc
    ELSE FetchFrom(i + 1, scrapers, results,
             [flats |-> IF results[i].raised = "none"
                        THEN acc.flats \o results[i].flats
                        ELSE acc.flats,
              statuses |-> [acc.statuses EXCEPT
                               ![scrapers[i]] = StatusText(results[i])],
              attempted |-> Append(acc.attempted, scrapers[i])])

fetch_all_flats(scrapers, results, statuses) ==
    FetchFrom(1, scrapers, results,
              [flats |-> <<>>, statuses |-> statuses, attempted |-> <<>>])

\* re.search(r"\d+(?:[.,]\d+)?", room_str) finds a number in the text
HasNumber(text) == text \in {"0", "1", "1,5", "2", "3"}

\* get_room_count, in tenths of a room: the first number of the text, 0
\* when there is none
RoomCount(flat) ==
    CASE flat.rooms = "0" -> 0
      [] flat.rooms = "1" -> 10
      [] flat.rooms = "1,5" -> 15
      [] flat.rooms = "2" -> 20
      [] flat.rooms = "3" -> 30
      [] OTHER -> 0

\* a filter that tests the rooms only
passes_rooms_only(flat) == RoomCount(flat) = 0 \/ RoomCount(flat) >= 20

PassesFilters(flat) ==
    (RoomCount(flat) = 0 \/ RoomCount(flat) >= 20) /\ ~flat.wbs_required

\* the flats of new_flats whose id is not in the previous snapshot
NewEntries(current, fetched) ==
    SelectSeq(fetched, LAMBDA flat : flat.id \notin FlatIds(current))

AllowedHour(h) == 8 <= h /\ h < 20

\* FlatMonitor.send_update; send_message raises TelegramError after k
\* messages (never, if k is the length of the list)
send_update(flats, buffered, h, k) ==
    IF flats = <<>>
    THEN [buffered |-> buffered, sent |-> <<>>]
    ELSE IF ~AllowedHour(h)
    THEN [buffered |-> buffered \o flats, sent |-> <<>>]
    ELSE [buffered |-> buffered, sent |-> SubSeq(flats, 1, k)]

\* FlatMonitor.send_buffered_flats
send_buffered_flats(buffered, h, k) ==
    IF buffered = <<>>
    THEN [buffered |-> buffered, sent |-> <<>>]
    ELSE IF AllowedHour(h)
    THEN [buffered |-> <<>>, sent |-> SubSeq(buffered, 1, k)]
    ELSE [buffered |-> buffered, sent |-> <<>>]

Hours == {7, 8, 19, 20}

NoFanout == [upstream |-> <<>>, results |-> <<>>, attempted |-> <<>>]

\* FlatMonitor.__init__ with the list scrapers, the process starting at one
\* of the hours and main() being at the position p
InitMonitorVars(hours, scrapers, p) ==
    /\ pc = "start"
    /\ current_flats = <<>>
    /\ buffered_flats = <<>>
    /\ website_statuses = [i \in {scrapers[j] : j \in DOMAIN scrapers}
                              |-> "Not checked yet"]
    /\ new_flats = <<>>
    /\ baseline = <<>>
    /\ hour \in hours
    /\ forwarded = {}
    /\ reforwarded = {}
    /\ delivered = {}
    /\ fanout = NoFanout
    /\ main = [pc |-> p, saved |-> FALSE]

\* one fan-out: every scraper's request ends somehow
Requests == [DOMAIN Scrapers -> Upstream]

\* what the scrapers' fetch_flats return or raise for these requests
ResultsOf(ups) == [i \in DOMAIN ups |-> fetch_flats(ups[i])]

Fanout(ups, results, got) ==
    [upstream |-> ups, results |-> results, attempted |-> got.attempted]

\* monitor(): load_seen_flats() and send_welcome()
Boot ==
    /\ pc = "start"
    /\ \E welcome_ok \in BOOLEAN :
        LET o == load_seen_flats(CacheNow) IN
        /\ SetCache(o)
        /\ ev' = Event("load_seen_flats", 0, FALSE, o, FALSE)
        /\ loaded' = (loaded \/ ~o.raised)
        /\ pc' = IF o.raised THEN "crashed"
                 ELSE IF welcome_ok THEN "init_fetch" ELSE "exited"
    /\ UNCHANGED <<marked, notBot, baseline, current_flats, buffered_flats,
                   website_statuses, new_flats, hour, forwarded, reforwarded,
                   delivered, fanout, main>>

\* monitor(): the initial fetch
InitialFetch ==
    /\ pc = "init_fetch"
    /\ \E ups \in Requests :
        LET results == ResultsOf(ups)
            got == fetch_all_flats(Scrapers, results, website_statuses)
        IN
        /\ current_flats' = got.flats
        /\ baseline' = got.flats
        /\ website_statuses' = got.statuses
        /\ fanout' = Fanout(ups, results, got)
    /\ pc' = "send_buffered"
    /\ UNCHANGED <<cacheVars, cacheHist, notBot, buffered_flats,
                   new_flats, hour, forwarded, reforwarded, delivered, main>>

\* the loop: await self.send_buffered_flats()
SendBuffered ==
    /\ pc = "send_buffered"
    /\ \E k \in 0..Len(buffered_flats) :
        LET out == send_buffered_flats(buffered_flats, hour, k) IN
        /\ buffered_flats' = out.buffered
        /\ delivered' = delivered \cup ListToSet(out.sent)
    /\ pc' = "fetch"
    /\ UNCHANGED <<cacheVars, cacheHist, notBot, baseline, current_flats,
                   website_statuses, new_flats, hour, forwarded, reforwarded,
                   fanout, main>>

\* the loop: new_flats = await self.fetch_all_flats()
Fetch ==
    /\ pc = "fetch"
    /\ \E ups \in Requests :
        LET results == ResultsOf(ups)
            got == fetch_all_flats(Scrapers, results, website_statuses)
        IN
        /\ new_flats' = got.flats
        /\ website_statuses' = got.statuses
        /\ fanout' = Fanout(ups, results, got)
    /\ pc' = "process"
    /\ UNCHANGED <<cacheVars, cacheHist, notBot, baseline, current_flats,
                   buffered_flats, hour, forwarded, reforwarded, delivered,
                   main>>

\* the loop: the new entries, the filters, send_update, save_seen_flats and
\* the update of current_flats
Process ==
    LET new_entries == NewEntries(current_flats, new_flats)
        two_or_more_rooms == SelectSeq(new_entries, PassesFilters)
    IN
    /\ pc = "process"
    /\ IF two_or_more_rooms # <<>>
       THEN \E k \in 0..Len(two_or_more_rooms),
               io \in {"ok", "open_fails", "write_fails"}, rev \in BOOLEAN :
              LET out == send_update(two_or_more_rooms, buffered_flats, hour, k)
                  o == save_seen_flats(CacheNow, FALSE, io, rev)
              IN
              /\ Len(out.buffered) <= MaxBuffer
              /\ buffered_flats' = out.buffered
              /\ delivered' = delivered \cup ListToSet(out.sent)
              /\ forwarded' = forwarded \cup FlatIds(two_or_more_rooms)
              /\ reforwarded' =
                    reforwarded \cup (FlatIds(two_or_more_rooms) \cap forwarded)
              /\ SetCache(o)
              /\ ev' = Event("save_seen_flats", 0, FALSE, o, FALSE)
       ELSE UNCHANGED <<buffered_flats, delivered, forwarded, reforwarded,
                        cacheVars, ev>>
    /\ current_flats' = new_flats
    /\ baseline' = new_flats
    /\ pc' = "sleep"
    /\ UNCHANGED <<loaded, marked, notBot, website_statuses, new_flats,
                   hour, fanout, main>>

\* the loop: await asyncio.sleep(self.config.monitor_interval)
Sleep ==
    /\ pc = "sleep"
    /\ pc' = "send_buffered"
    /\ UNCHANGED <<cacheVars, cacheHist, notBot, baseline, current_flats,
                   buffered_flats, website_statuses, new_flats, hour, forwarded,
                   reforwarded, delivered, fanout, main>>

\* the hour of the day changes
HourChanges ==
    /\ pc # "start"
    /\ \E h \in Hours \ {hour} : hour' = h
    /\ UNCHANGED <<cacheVars, cacheHist, notBot, baseline, pc, current_flats,
                   buffered_flats, website_statuses, new_flats, forwarded,
                   reforwarded, delivered, fanout, main>>

\* FlatMonitor.handle_clear_command (/clear)
HandleClear ==
    /\ pc \notin {"start", "exited"}
    /\ \E unlink_ok \in BOOLEAN :
        LET o == reset_seen_flats(CacheNow, unlink_ok) IN
        /\ SetCache(o)
        /\ ev' = Event("reset_seen_flats", 0, FALSE, o, FALSE)
    /\ current_flats' = <<>>
    /\ buffered_flats' = <<>>
    /\ marked' = [x \in Ids |->
                     IF marked[x] = "unmarked" THEN "unmarked" ELSE "cleared"]
    /\ forwarded' = {}
    /\ reforwarded' = {}
    /\ delivered' = {}
    /\ UNCHANGED <<loaded, notBot, baseline, pc, website_statuses, new_flats, hour,
                   fanout, main>>

\* a notification whose TelegramError leaves the function
notification_raises(outcome) == [raised |-> outcome = "TelegramError"]

\* FlatMonitor.send_error_notification; outcome is what bot.send_message
\* ends with, "ok" or "TelegramError" (caught and logged)
send_error_notification(outcome) == [raised |-> FALSE]

\* the loop: a statement of the try block raises an Exception that no
\* callee handles, before it has changed anything; `except Exception`
\* of the loop catches it
CycleRaises ==
    /\ pc \in {"send_buffered", "fetch", "process"}
    /\ pc' = "error"
    /\ UNCHANGED <<cacheVars, cacheHist, notBot, baseline, current_flats,
                   buffered_flats, website_statuses, new_flats, hour, forwarded,
                   reforwarded, delivered, fanout, main>>

\* the loop: the handler `except Exception`: the error is logged and
\* send_error_notification awaited; an exception that leaves it ends
\* monitor()
NotifyError ==
    /\ pc = "error"
    /\ \E outcome \in {"ok", "TelegramError"} :
        pc' = IF send_error_notification(outcome).raised
              THEN "crashed" ELSE "sleep"
    /\ UNCHANGED <<cacheVars, cacheHist, notBot, baseline, current_flats,
                   buffered_flats, website_statuses, new_flats, hour, forwarded,
                   reforwarded, delivered, fanout, main>>

\* FlatMonitor.handle_list_command (/list): when current_flats is empty
\* the handler fetches and assigns what it got to current_flats; the
\* replies to the chat change no state
HandleList ==
    /\ pc \notin {"start", "exited"}
    /\ IF current_flats # <<>>
       THEN UNCHANGED <<current_flats, website_statuses, fanout>>
       ELSE \E ups \in Requests :
               LET results == ResultsOf(ups)
                   got == fetch_all_flats(Scrapers, results, website_statuses)
               IN
               /\ current_flats' = got.flats
               /\ website_statuses' = got.statuses
               /\ fanout' = Fanout(ups, results, got)
    /\ UNCHANGED <<cacheVars, cacheHist, notBot, baseline, pc, buffered_flats,
                   new_flats, hour, forwarded, reforwarded, delivered, main>>

\* FlatMonitor.handle_status_command (/status): the handler fetches to
\* bring the statuses up to date and drops the flats
HandleStatus ==
    /\ pc \notin {"start", "exited"}
    /\ \E ups \in Requests :
        LET results == ResultsOf(ups)
            got == fetch_all_flats(Scrapers, results, website_statuses)
        IN
        /\ website_statuses' = got.statuses
        /\ fanout' = Fanout(ups, results, got)
    /\ UNCHANGED <<cacheVars, cacheHist, notBot, baseline, pc, current_flats,
                   buffered_flats, new_flats, hour, forwarded, reforwarded,
                   delivered, main>>

(***************************************************************************)
(* fetch_all_flats over a list of three scrapers, each of whose            *)
(* fetch_flats may return or raise anything.                               *)
(***************************************************************************)
\* FlatMonitor.scrapers with three of the scrapers listed in __init__
FanScrapers == <<"InBerlinWohnenScraper", "DegewoScraper", "GesobauScraper">>

\* the source the scraper s gives its flats
SourceOf(s) ==
    CASE s = "InBerlinWohnenScraper" -> "InBerlinWohnen"
      [] s = "DegewoScraper" -> "Degewo"
      [] OTHER -> "Gesobau"

\* what fetch_flats of the scraper s returns or raises
FanResults(s) ==
    {Result("none", "", <<>>),
     Result("none", "", <<Flat(1, SourceOf(s), "2", FALSE)>>),
     Result("none", "", <<Flat(1, SourceOf(s), "2", FALSE),
                          Flat(2, SourceOf(s), "", FALSE)>>),
     Result("WebsiteUnavailableError",
            "Website is in backoff period. Retry in 120 seconds.", <<>>),
     Result("HighTrafficError", "Website experiencing high traffic", <<>>),
     Result("TimeoutError", "", <<>>),
     Result("Exception", "'NoneType' object has no attribute 'find'", <<>>)}

\* one call of fetch_all_flats
FanOut ==
    \E r1 \in FanResults(FanScrapers[1]), r2 \in FanResults(FanScrapers[2]),
       r3 \in FanResults(FanScrapers[3]) :
        LET results == <<r1, r2, r3>>
            got == fetch_all_flats(FanScrapers, results, website_statuses)
        IN
        /\ new_flats' = got.flats
        /\ website_statuses' = got.statuses
        /\ fanout' = Fanout(<<>>, results, got)
        /\ UNCHANGED <<cacheVars, cacheHist, notBot, baseline, pc, current_flats,
                       buffered_flats, hour, forwarded, reforwarded, delivered,
                       main>>

\* what fetch_flats of the scraper s returns or raises in a cycle of the
\* loop: the sources number their listings independently, so the listing
\* of each source has the id 1
CycleResults(s) ==
    {Result("none", "", <<>>),
     Result("none", "", <<Flat(1, SourceOf(s), "2", FALSE)>>),
     Result("WebsiteUnavailableError", "Website unavailable. Status: 500",
            <<>>)}

\* monitor(): the initial fetch, from three scrapers
InitialFetchAll ==
    /\ pc = "init_fetch"
    /\ \E r1 \in CycleResults(FanScrapers[1]),
          r2 \in CycleResults(FanScrapers[2]),
          r3 \in CycleResults(FanScrapers[3]) :
        LET results == <<r1, r2, r3>>
            got == fetch_all_flats(FanScrapers, results, website_statuses)
        IN
        /\ current_flats' = got.flats
        /\ baseline' = got.flats
        /\ website_statuses' = got.statuses
        /\ fanout' = Fanout(<<>>, results, got)
    /\ pc' = "send_buffered"
    /\ UNCHANGED <<cacheVars, cacheHist, notBot, buffered_flats,
                   new_flats, hour, forwarded, reforwarded, delivered, main>>

\* the loop: new_flats = await self.fetch_all_flats(), from three scrapers
FetchAll ==
    /\ pc = "fetch"
    /\ \E r1 \in CycleResults(FanScrapers[1]),
          r2 \in CycleResults(FanScrapers[2]),
          r3 \in CycleResults(FanScrapers[3]) :
        LET results == <<r1, r2, r3>>
            got == fetch_all_flats(FanScrapers, results, website_statuses)
        IN
        /\ new_flats' = got.flats
        /\ website_statuses' = got.statuses
        /\ fanout' = Fanout(<<>>, results, got)
    /\ pc' = "process"
    /\ UNCHANGED <<cacheVars, cacheHist, notBot, baseline, current_flats,
                   buffered_flats, hour, forwarded, reforwarded, delivered,
                   main>>

(***************************************************************************)
(* bot.py: main().  main.pc is                                             *)
(*   setup     before asyncio.create_task(monitor.monitor())               *)
(*   starting  in application.initialize() / application.start()           *)
(*   polling   in the inner try: start_polling and the sleep loop          *)
(*   finally   in the finally clause                                       *)
(*   ended     main() is over                                              *)
(* A step of main ends normally ("ok"), with an Exception ("exception") or *)
(* with the CancelledError that asyncio.run delivers on SIGINT             *)
(* ("cancelled").                                                          *)
(***************************************************************************)
\* the outer handler `except Exception` and the save of the finally clause:
\* save_seen_flats(force=True)
ShutdownSave(c, io, rev) == save_seen_flats(c, TRUE, io, rev)

Setup ==
    /\ main.pc = "setup"
    /\ \E how \in {"ok", "exception"},
          io \in {"ok", "open_fails", "write_fails"}, rev \in BOOLEAN :
        IF how = "ok"
        THEN /\ main' = [main EXCEPT !.pc = "starting"]
             /\ UNCHANGED <<cacheVars, ev>>
        ELSE LET o == ShutdownSave(CacheNow, io, rev) IN
             /\ SetCache(o)
             /\ ev' = Event("save_seen_flats", 0, TRUE, o, FALSE)
             /\ main' = [pc |-> "ended", saved |-> TRUE]
    /\ UNCHANGED <<loaded, marked, notBot, loopVars>>

Start ==
    /\ main.pc = "starting"
    /\ pc # "exited"
    /\ \E how \in {"ok", "exception", "cancelled"},
          io \in {"ok", "open_fails", "write_fails"}, rev \in BOOLEAN :
        CASE how = "ok" ->
                /\ main' = [main EXCEPT !.pc = "polling"]
                /\ UNCHANGED <<cacheVars, ev>>
          [] how = "exception" ->
                LET o == ShutdownSave(CacheNow, io, rev) IN
                /\ SetCache(o)
                /\ ev' = Event("save_seen_flats", 0, TRUE, o, FALSE)
                /\ main' = [pc |-> "ended", saved |-> TRUE]
          [] OTHER ->
                \* CancelledError is no Exception: no handler runs
                /\ main' = [main EXCEPT !.pc = "ended"]
                /\ UNCHANGED <<cacheVars, ev>>
    /\ UNCHANGED <<loaded, marked, notBot, loopVars>>

\* the inner try is left, by an Exception (logged) or by CancelledError
Poll ==
    /\ main.pc = "polling"
    /\ pc # "exited"
    /\ main' = [main EXCEPT !.pc = "finally"]
    /\ UNCHANGED <<cacheVars, cacheHist, notBot, loopVars>>

\* monitoring_task.cancel(), await monitoring_task, save_seen_flats(force=True)
\* and application.stop(); the exception of a monitoring task that has
\* crashed, and one of application.stop(), reach the outer handler
Finally ==
    /\ main.pc = "finally"
    /\ \E stop_ok \in BOOLEAN,
          io \in {"ok", "open_fails", "write_fails"}, rev \in BOOLEAN,
          io2 \in {"ok", "open_fails", "write_fails"}, rev2 \in BOOLEAN :
        LET o == ShutdownSave(CacheNow, io, rev)
            o2 == ShutdownSave(o, io2, rev2)
        IN
        /\ IF pc = "crashed" \/ stop_ok THEN SetCache(o) ELSE SetCache(o2)
        /\ ev' = Event("save_seen_flats", 0, TRUE,
                       IF pc = "crashed" \/ stop_ok THEN o ELSE o2, FALSE)
    /\ pc' = IF pc = "crashed" THEN pc ELSE "cancelled"
    /\ main' = [pc |-> "ended", saved |-> TRUE]
    /\ UNCHANGED <<loaded, marked, notBot, baseline, current_flats, buffered_flats,
                   website_statuses, new_flats, hour, forwarded, reforwarded,
                   delivered, fanout>>

\* exit() in send_welcome: SystemExit leaves the monitoring task and the
\* event loop; main() is cancelled where it waits, and its finally clause
\* is left by the SystemExit that `await monitoring_task` raises
TaskExits ==
    /\ pc = "exited"
    /\ main.pc \in {"starting", "polling"}
    /\ main' = [main EXCEPT !.pc = "ended"]
    /\ UNCHANGED <<cacheVars, cacheHist, notBot, loopVars>>

\* the monitoring task runs while main() is starting or polling
TaskStep ==
    /\ main.pc \in {"starting", "polling"}
    /\ \/ Boot
       \/ InitialFetch
       \/ SendBuffered
       \/ Fetch
       \/ Process
       \/ Sleep

(***************************************************************************)
(* scrapers/base.py: check_wbs_required.  A text is the sequence of its    *)
(* words in lower case (text.lower()); the empty sequence is the empty     *)
(* string.  No word of the model ends or begins with another one, so that  *)
(* `pattern in text_lower` is the occurrence of the pattern's words as     *)
(* consecutive words of the text.                                          *)
(***************************************************************************)
\* the words the texts of the model are made of
Words == {"wbs", "wohnberechtigungsschein", "kein", "ohne", "no", "nicht",
          "nein", "erforderlich", "notwendig", "ist", "balkon"}

\* the texts check_wbs_required is called with have at most MaxWords words
MaxWords == 3

Texts == UNION {[1..n -> Words] : n \in 0..MaxWords}

\* `pattern in text_lower`
HasPhrase(text, phrase) ==
    \E i \in 1..(Len(text) - Len(phrase) + 1) :
        SubSeq(text, i, i + Len(phrase) - 1) = phrase

\* re.search(r"\bwbs\b|wohnberechtigungsschein", text_lower)
mentions_wbs(text) ==
    \E i \in DOMAIN text : text[i] \in {"wbs", "wohnberechtigungsschein"}

\* "wbs nicht noetig" stands for the pattern written with o-umlaut
not_required_patterns ==
    {<<"kein", "wbs">>, <<"ohne", "wbs">>, <<"no", "wbs">>,
     <<"wbs", "nicht", "erforderlich">>, <<"wbs", "nicht", "notwendig">>,
     <<"wbs", "nicht", "noetig">>, <<"ohne", "wohnberechtigungsschein">>,
     <<"kein", "wohnberechtigungsschein">>}

\* the words that begin with nein, no or nicht: the group (nein|no|nicht) of
\* the pattern below is not followed by a word boundary
begins_with_negation(word) == word \in {"nein", "no", "nicht", "notwendig"}

\* re.search(r"\bwbs\b[:\s-]*(nein|no|nicht)", text_lower)
followed_by_negation(text) ==
    \E i \in 1..(Len(text) - 1) :
        text[i] = "wbs" /\ begins_with_negation(text[i + 1])

check_wbs_required(text) ==
    IF text = <<>>
    THEN FALSE
    ELSE IF ~mentions_wbs(text)
    THEN FALSE
    ELSE IF \E pattern \in not_required_patterns : HasPhrase(text, pattern)
    THEN FALSE
    ELSE IF followed_by_negation(text)
    THEN FALSE
    ELSE TRUE

NoCheck == [op |-> "none", text |-> <<>>, result |-> FALSE]

\* one call of check_wbs_required
CheckWbs ==
    \E text \in Texts :
        /\ checked' = [op |-> "check_wbs_required", text |-> text,
                       result |-> check_wbs_required(text)]
        /\ UNCHANGED <<cacheVars, cacheHist, backoffVars, monitorVars,
                       hashseed, extracted, derived>>

(***************************************************************************)
(* scrapers/*.py: the extractors.  A candidate is the upstream data of one *)
(* element or object of a payload:                                         *)
(*   key      which listing it is (not read by the extractors)             *)
(*   via      "html" (an element of the page), "json" (an object of the    *)
(*            API response) or "livewire" (a wire:snapshot attribute)      *)
(*   shape    "ok"; "broken" (reading it raises inside the extractor of    *)
(*            the candidate, e.g. a property item without its span);       *)
(*            "bad_json" (the snapshot is no JSON); "not_object" (the      *)
(*            first entry of data.item is no JSON object)                  *)
(*   id       the id attribute / objectId / immoNumber, "" when absent     *)
(*   title    the text of the title, <<>> when absent                      *)
(*   body     the href or text of the element                              *)
(*   address, rooms, area, features, wbs                                   *)
(*            the texts of the fields, <<>> when absent                    *)
(* FlatDetails.link and the rent and availability fields, which are built  *)
(* like area, are left out.                                                *)
(***************************************************************************)
FlatDetails(id, title, details, wbs_required, source) ==
    [id |-> id, title |-> title, details |-> details,
     wbs_required |-> wbs_required, source |-> source]

\* the listings upstream
Data ==
    {[key |-> 1, id |-> "a1", title |-> <<"wohnung", "wbs">>,
      body |-> "/wohnung/1", address |-> <<"musterstr", "1">>,
      rooms |-> <<"2">>, area |-> <<"60">>, features |-> <<"kein", "wbs">>,
      wbs |-> <<>>],
     [key |-> 2, id |-> "", title |-> <<"wohnung", "mit", "balkon">>,
      body |-> "/wohnung/2", address |-> <<"musterstr", "2">>,
      rooms |-> <<"3">>, area |-> <<"75">>, features |-> <<"balkon">>,
      wbs |-> <<>>],
     [key |-> 3, id |-> "a3", title |-> <<"wohnung">>,
      body |-> "/wohnung/3", address |-> <<>>, rooms |-> <<>>,
      area |-> <<>>, features |-> <<>>, wbs |-> <<"wbs", "erforderlich">>],
     [key |-> 4, id |-> "a4", title |-> <<>>,
      body |-> "/wohnung/4", address |-> <<"musterstr", "4">>,
      rooms |-> <<"1">>, area |-> <<"30">>, features |-> <<>>,
      wbs |-> <<>>]}

Keys == {d.key : d \in Data}

Candidate(d, via, shape) ==
    [key |-> d.key, via |-> via, shape |-> shape, id |-> d.id,
     title |-> d.title, body |-> d.body, address |-> d.address,
     rooms |-> d.rooms, area |-> d.area, features |-> d.features,
     wbs |-> d.wbs]

Extractors == {"InBerlinWohnenScraper", "DegewoScraper", "GesobauScraper",
               "GewobagScraper", "StadtUndLandScraper"}

\* the forms a candidate of the scraper's payload can have
Forms(s) ==
    CASE s = "InBerlinWohnenScraper" ->
            {<<"livewire", "ok">>, <<"livewire", "broken">>,
             <<"livewire", "bad_json">>, <<"livewire", "not_object">>,
             <<"html", "ok">>}
      [] s = "StadtUndLandScraper" ->
            {<<"json", "ok">>, <<"json", "broken">>}
      [] OTHER -> {<<"html", "ok">>, <<"html", "broken">>}

\* the candidates of the scraper's payloads: every listing in the forms
\* that are "ok", the listing 4 in the other forms
Candidates(s) ==
    {Candidate(d, f[1], f[2]) :
        d \in Data, f \in {g \in Forms(s) : g[2] = "ok"}}
    \cup {Candidate(d, f[1], f[2]) :
        d \in {e \in Data : e.key = 4}, f \in {g \in Forms(s) : g[2] # "ok"}}

\* a payload holds at most MaxCandidates candidates
MaxCandidates == 2

Payloads(s) == UNION {[1..n -> Candidates(s)] : n \in 0..MaxCandidates}

\* the seeds of the string hash a process can start with
HashSeeds == {"seed1", "seed2"}

\* str(hash(text)) in a process whose hash seed is seed
Hash(text, seed) == "hash(" \o text \o "," \o seed \o ")"

\* the keys of the fields that are present
Present(c, keys) == {k \in keys : c[k] # <<>>}

\* any(check_wbs_required(source) for source in wbs_sources), the sources
\* being the title and the values of the details that are not empty
WbsOf(title, details) ==
    \/ check_wbs_required(title)
    \/ \E k \in DOMAIN details :
          details[k] # <<>> /\ check_wbs_required(details[k])

\* the text of the element the title is read from, "No title" without it
TitleOrNone(c) == IF c.title = <<>> THEN <<"no", "title">> ELSE c.title

\* DegewoScraper._extract_flat_details: <<>> for None
degewo_extract_flat_details(c) ==
    IF c.shape # "ok"
    THEN <<>>
    ELSE LET flat_id == c.id
             title_text == TitleOrNone(c)
             details == [k \in Present(c, {"address", "features", "rooms",
                                           "area"}) |-> c[k]]
         IN <<FlatDetails(flat_id, title_text, details,
                          WbsOf(title_text, details), "Degewo")>>

\* GesobauScraper._extract_flat_details
gesobau_extract_flat_details(c, seed) ==
    IF c.shape # "ok"
    THEN <<>>
    ELSE LET flat_id == IF c.id = "" THEN Hash(c.body, seed) ELSE c.id
             details == [k \in Present(c, {"address", "rooms", "area"})
                            |-> c[k]]
         IN IF c.title = <<>>
            THEN <<>>
            ELSE <<FlatDetails(flat_id, c.title, details,
                               WbsOf(c.title, details), "Gesobau")>>

\* GewobagScraper._extract_flat_details
gewobag_extract_flat_details(c) ==
    IF c.shape # "ok"
    THEN <<>>
    ELSE LET flat_id == c.id
             details == [k \in Present(c, {"address", "area", "features"})
                            |-> c[k]]
         IN IF c.title = <<>>
            THEN <<>>
            ELSE <<FlatDetails(flat_id, c.title, details,
                               WbsOf(c.title, details), "Gewobag")>>

\* StadtUndLandScraper._extract_flat_details: the dictionary is built with
\* every key, whatever the object holds
stadtundland_extract_flat_details(c) ==
    IF c.shape # "ok"
    THEN <<>>
    ELSE IF c.id = "" \/ c.title = <<>>
    THEN <<>>
    ELSE LET always == [k \in {"address", "rooms", "area"} |->
                           IF k = "area" THEN c.area \o <<"m2">> ELSE c[k]]
             details == [k \in {"address", "rooms", "area"}
                               \cup Present(c, {"features"}) |->
                           IF k = "features" THEN c.features ELSE always[k]]
         IN <<FlatDetails(c.id, c.title, details, WbsOf(c.title, details),
                          "Stadt und Land")>>

\* InBerlinWohnenScraper._parse_livewire_apartment
parse_livewire_apartment(c) ==
    IF c.shape # "ok"
    THEN <<>>
    ELSE IF c.id = "" \/ c.title = <<>>
    THEN <<>>
    ELSE LET details == [k \in Present(c, {"address", "rooms", "area"})
                                 \cup {"object_id"} |->
                            CASE k = "object_id" -> <<c.id>>
                              [] k = "area" -> c.area \o <<"m2">>
                              [] OTHER -> c[k]]
         IN <<FlatDetails(c.id, c.title, details,
                          WbsOf(c.title, details)
                              \/ check_wbs_required(c.wbs),
                          "InBerlinWohnen")>>

\* flat_element.get_text(): the title and the fields of the element
ElementText(c) == c.title \o c.address \o c.rooms \o c.area \o c.features

\* InBerlinWohnenScraper._extract_flat_details (the traditional scraping)
inberlin_extract_flat_details(c, seed) ==
    IF c.shape # "ok"
    THEN <<>>
    ELSE LET flat_id == IF c.id = "" THEN Hash(c.body, seed) ELSE c.id
             title_text == TitleOrNone(c)
             details == [k \in Present(c, {"address", "rooms", "area",
                                           "features"}) |-> c[k]]
         IN IF title_text # <<"no", "title">>
            THEN <<FlatDetails(flat_id, title_text, details,
                               WbsOf(title_text, details)
                                   \/ check_wbs_required(ElementText(c)),
                               "InBerlinWohnen")>>
            ELSE <<>>

\* the extractor of one candidate
ExtractOne(s, c, seed) ==
    CASE s = "DegewoScraper" -> degewo_extract_flat_details(c)
      [] s = "GesobauScraper" -> gesobau_extract_flat_details(c, seed)
      [] s = "GewobagScraper" -> gewobag_extract_flat_details(c)
      [] s = "StadtUndLandScraper" -> stadtundland_extract_flat_details(c)
      [] OTHER -> IF c.via = "livewire"
                  THEN parse_livewire_apartment(c)
                  ELSE inberlin_extract_flat_details(c, seed)

\* the loop `for flat in flat_elements` with its `if flat_details`
RECURSIVE ExtractAll(_, _, _)
ExtractAll(s, cands, seed) ==
    IF cands = <<>>
    THEN <<>>
    ELSE ExtractOne(s, Head(cands), seed) \o ExtractAll(s, Tail(cands), seed)

\* InBerlinWohnenScraper._extract_livewire_apartments: a snapshot that is
\* no JSON is passed over; the merge loop calls apartment.get("id") outside
\* the try, which raises AttributeError for an entry that is no object
extract_livewire_apartments(snapshots) ==
    [raised |-> \E i \in DOMAIN snapshots : snapshots[i].shape = "not_object",
     apartments |-> SelectSeq(snapshots, LAMBDA c : c.shape # "bad_json")]

\* fetch_flats of the scraper s from the response on, the payload holding
\* the candidates cands
extract_flats(s, cands, seed) ==
    IF s = "InBerlinWohnenScraper"
    THEN LET snapshots == SelectSeq(cands, LAMBDA c : c.via = "livewire")
             elements == SelectSeq(cands, LAMBDA c : c.via = "html")
             apartment_data == extract_livewire_apartments(snapshots)
             flats == ExtractAll(s, apartment_data.apartments, seed)
         IN IF apartment_data.raised
            THEN \* except Exception: return []
                 Result("none", "", <<>>)
            ELSE IF flats = <<>>
            THEN Result("none", "",
                        filter_duplicates(ExtractAll(s, elements, seed)))
            ELSE Result("none", "", filter_duplicates(flats))
    ELSE Result("none", "", filter_duplicates(ExtractAll(s, cands, seed)))

\* the ids the extractor derives for the listing k of the payload
IdsFor(s, cands, k, seed) ==
    UNION {FlatIds(ExtractOne(s, cands[i], seed)) :
              i \in {j \in DOMAIN cands : cands[j].key = k}}

NoExtraction ==
    [scraper |-> "none", payload |-> <<>>, result |-> Result("none", "", <<>>)]

\* a process that has started with one of the seeds
InitExtractVars(seeds) ==
    /\ hashseed \in seeds
    /\ extracted = NoExtraction
    /\ derived = [k \in Keys |-> {}]
    /\ checked = NoCheck

\* one poll of one scraper; derived follows the scraper polled last
Extract ==
    \E s \in Extractors :
        \E cands \in Payloads(s) :
            /\ extracted' = [scraper |-> s, payload |-> cands,
                             result |-> extract_flats(s, cands, hashseed)]
            /\ derived' = [k \in Keys |->
                              (IF extracted.scraper = s THEN derived[k] ELSE {})
                                  \cup IdsFor(s, cands, k, hashseed)]
            /\ UNCHANGED <<cacheVars, cacheHist, backoffVars, monitorVars,
                           hashseed, checked>>

\* the process is started again: Python draws a new hash seed unless
\* PYTHONHASHSEED is set
Restart ==
    /\ hashseed' \in HashSeeds
    /\ UNCHANGED <<cacheVars, cacheHist, backoffVars, monitorVars,
                   extracted, derived, checked>>

(***************************************************************************)
(* The cache as a state machine: any caller may invoke any operation.      *)
(***************************************************************************)
Load ==
    LET o == load_seen_flats(CacheNow) IN
    /\ SetCache(o)
    /\ ev' = Event("load_seen_flats", 0, FALSE, o, FALSE)
    /\ loaded' = (loaded \/ ~o.raised)
    /\ UNCHANGED <<marked, notCache>>

Save ==
    \E force \in BOOLEAN, io \in {"ok", "open_fails", "write_fails"},
       rev \in BOOLEAN :
        LET o == save_seen_flats(CacheNow, force, io, rev) IN
        /\ SetCache(o)
        /\ ev' = Event("save_seen_flats", 0, force, o, FALSE)
        /\ UNCHANGED <<loaded, marked, notCache>>

Reset ==
    \E unlink_ok \in BOOLEAN :
        LET o == reset_seen_flats(CacheNow, unlink_ok) IN
        /\ SetCache(o)
        /\ ev' = Event("reset_seen_flats", 0, FALSE, o, FALSE)
        /\ marked' = [x \in Ids |->
                         IF marked[x] = "unmarked" THEN "unmarked" ELSE "cleared"]
        /\ UNCHANGED <<loaded, notCache>>

MarkFlatSeen ==
    \E flat_id \in SingleIds :
        LET o == mark_flat_seen(CacheNow, flat_id) IN
        /\ SetCache(o)
        /\ ev' = Event("mark_flat_seen", flat_id, FALSE, o, FALSE)
        /\ marked' = [marked EXCEPT ![flat_id] = "marked"]
        /\ UNCHANGED <<loaded, notCache>>

MarkFlatsAsSeen ==
    \E flats \in Batches :
        LET o == mark_flats_as_seen(CacheNow, flats) IN
        /\ SetCache(o)
        /\ ev' = Event("mark_flats_as_seen", 0, FALSE, o, FALSE)
        /\ marked' = [x \in Ids |->
                         IF x \in ListToSet(flats) THEN "marked" ELSE marked[x]]
        /\ UNCHANGED <<loaded, notCache>>

IsFlatSeen ==
    \E flat_id \in SingleIds :
        /\ ev' = Event("is_flat_seen", flat_id, FALSE,
                       Outcome(CacheNow, FALSE, FALSE),
                       is_flat_seen(CacheNow, flat_id))
        /\ UNCHANGED <<cacheVars, loaded, marked, notCache>>

InitCache ==
    /\ InitCacheVars(InitFiles)
    /\ InitBackoffVars
    /\ InitExtractVars({"seed1"})
    /\ InitMonitorVars({8}, Scrapers, "polling")

\* every cache operation, in any order
NextCache ==
    \/ Load
    \/ Save
    \/ Reset
    \/ MarkFlatSeen
    \/ MarkFlatsAsSeen
    \/ IsFlatSeen

SpecCache == InitCache /\ [][NextCache]_vars

\* the operations of the dedup contract (isSeen / markSeen / markManySeen /
\* reset, and save), from the state the module has when it is imported
NextDedup ==
    \/ Save
    \/ Reset
    \/ MarkFlatSeen
    \/ MarkFlatsAsSeen
    \/ IsFlatSeen

SpecDedup == InitCache /\ [][NextDedup]_vars

(***************************************************************************)
(* The retry/backoff policy as a state machine: the callers invoke         *)
(* _make_request of one scraper while time passes.                         *)
(***************************************************************************)
InitBackoff ==
    /\ InitCacheVars({File("missing", <<>>)})
    /\ InitBackoffVars
    /\ InitExtractVars({"seed1"})
    /\ InitMonitorVars({8}, Scrapers, "polling")

NextBackoff ==
    \/ MakeRequest
    \/ Respond
    \/ Tick

SpecBackoff == InitBackoff /\ [][NextBackoff]_vars

(***************************************************************************)
(* The retry/backoff policy of several sources: the monitoring loop        *)
(* fetches from the scrapers in turn while time passes.                    *)
(***************************************************************************)
NextSources ==
    \/ MakeRequestOfAny
    \/ RespondToAny
    \/ LongTick

SpecSources == InitBackoff /\ [][NextSources]_vars

(***************************************************************************)
(* The bot: the monitoring loop, and the /clear command handled            *)
(* concurrently with it.                                                   *)
(***************************************************************************)
\* the cache files the bot is started with
BotFiles ==
    {File("missing", <<>>), File("array", <<1, 2>>), File("number", <<>>)}

InitMonitor ==
    /\ InitCacheVars(BotFiles)
    /\ InitBackoffVars
    /\ InitExtractVars({"seed1"})
    /\ InitMonitorVars(Hours, Scrapers, "polling")

NextMonitor ==
    \/ Boot
    \/ InitialFetch
    \/ SendBuffered
    \/ Fetch
    \/ Process
    \/ Sleep
    \/ HourChanges
    \/ HandleClear

SpecMonitor == InitMonitor /\ [][NextMonitor]_vars

(***************************************************************************)
(* The bot during the allowed hours: the monitoring loop, and the          *)
(* commands /list, /status and /clear handled concurrently with it.        *)
(***************************************************************************)
InitCommands ==
    /\ InitCacheVars({File("missing", <<>>)})
    /\ InitBackoffVars
    /\ InitExtractVars({"seed1"})
    /\ InitMonitorVars({8}, Scrapers, "polling")

NextCommands ==
    \/ Boot
    \/ InitialFetch
    \/ SendBuffered
    \/ Fetch
    \/ Process
    \/ Sleep
    \/ HandleList
    \/ HandleStatus
    \/ HandleClear

SpecCommands == InitCommands /\ [][NextCommands]_vars

(***************************************************************************)
(* The monitoring loop with failures of every kind inside a cycle, until   *)
(* main() cancels the monitoring task.                                     *)
(***************************************************************************)
NextLoop ==
    \/ Boot
    \/ InitialFetch
    \/ SendBuffered
    \/ Fetch
    \/ Process
    \/ Sleep
    \/ CycleRaises
    \/ NotifyError
    \/ Poll
    \/ Finally

SpecLoop == InitCommands /\ [][NextLoop]_vars

\* Every await of the loop ends: the requests and the messages have
\* timeouts and the sleep lasts monitor_interval seconds, so a step of the
\* loop that can be taken is taken.  Nothing obliges a statement to raise,
\* nor main() to shut down.
FairLoop ==
    /\ SpecLoop
    /\ WF_vars(SendBuffered)
    /\ WF_vars(Fetch)
    /\ WF_vars(Process)
    /\ WF_vars(Sleep)
    /\ WF_vars(NotifyError)

(***************************************************************************)
(* The fan-out: fetch_all_flats is called again and again.                 *)
(***************************************************************************)
InitFanout ==
    /\ InitCacheVars({File("missing", <<>>)})
    /\ InitBackoffVars
    /\ InitExtractVars({"seed1"})
    /\ InitMonitorVars({8}, FanScrapers, "polling")

NextFanout == FanOut

SpecFanout == InitFanout /\ [][NextFanout]_vars

(***************************************************************************)
(* The monitoring loop over three sources                                  *)
(***************************************************************************)
NextCycles ==
    \/ Boot
    \/ InitialFetchAll
    \/ SendBuffered
    \/ FetchAll
    \/ Process
    \/ Sleep

SpecCycles == InitFanout /\ [][NextCycles]_vars

(***************************************************************************)
(* The process: main() and the monitoring task it creates.                 *)
(***************************************************************************)
InitMain ==
    /\ InitCacheVars(BotFiles)
    /\ InitBackoffVars
    /\ InitExtractVars({"seed1"})
    /\ InitMonitorVars({8}, Scrapers, "setup")

NextMain ==
    \/ Setup
    \/ Start
    \/ Poll
    \/ Finally
    \/ TaskExits
    \/ TaskStep

SpecMain == InitMain /\ [][NextMain]_vars

(***************************************************************************)
(* The extractors: the scrapers are polled again and again, the process    *)
(* being restarted in between.                                             *)
(***************************************************************************)
InitExtract ==
    /\ InitCacheVars({File("missing", <<>>)})
    /\ InitBackoffVars
    /\ InitMonitorVars({8}, Scrapers, "polling")
    /\ InitExtractVars(HashSeeds)

NextExtract ==
    \/ Extract
    \/ Restart

SpecExtract == InitExtract /\ [][NextExtract]_vars

(***************************************************************************)
(* check_wbs_required called with every text                               *)
(***************************************************************************)
InitWbs ==
    /\ InitCacheVars({File("missing", <<>>)})
    /\ InitBackoffVars
    /\ InitMonitorVars({8}, Scrapers, "polling")
    /\ InitExtractVars({"seed1"})

NextWbs == CheckWbs

SpecWbs == InitWbs /\ [][NextWbs]_vars

(***************************************************************************)
(* Properties of the monitoring loop                                       *)
(***************************************************************************)
\* C1: across the poll cycles, a source failing or returning nothing in
\* between included, a listing id that the loop has forwarded as new is
\* never forwarded as new again, unless the caches were reset in between.
C1_NeverForwardedTwice == reforwarded = {}

\* C2: every listing the loop classifies as new and filter-passing is sent
\* to the chat or kept in the buffer until it is sent; none is discarded
\* undelivered.
C2_NeverDiscarded ==
    forwarded \subseteq ({flat.id : flat \in delivered}
                           \cup FlatIds(buffered_flats))

(***************************************************************************)
(* Properties of the dedup cache                                           *)
(***************************************************************************)
\* x is listed in the file f
ListedIn(f, x) == \E i \in 1..Len(f.ids) : f.ids[i] = x

C4_OnlyResetShrinks ==
    [][loaded =>
        /\ (~(seen_flat_ids \subseteq seen_flat_ids')
                => ev'.op = "reset_seen_flats")
        /\ (~(seen_flat_ids' \subseteq seen_flat_ids)
                => ev'.op \in {"mark_flat_seen", "mark_flats_as_seen"})]_vars

\* C4 (amended): after the startup load the set only grows through the mark
\* operations and only shrinks through reset_seen_flats, except that a
\* later load_seen_flats replaces it by the content of the file;
\* save_seen_flats and is_flat_seen never change it.
C4_OnlyResetOrLoadShrinks ==
    [][loaded =>
        /\ (~(seen_flat_ids \subseteq seen_flat_ids')
                => ev'.op \in {"reset_seen_flats", "load_seen_flats"})
        /\ (~(seen_flat_ids' \subseteq seen_flat_ids)
                => ev'.op \in {"mark_flat_seen", "mark_flats_as_seen",
                               "load_seen_flats"})]_vars

\* after the startup load, a save has written a non-empty set and kept it
C4_Witness ==
    /\ loaded
    /\ ev.op = "save_seen_flats"
    /\ ev.wrote
    /\ seen_flat_ids # {}
    /\ cache_file.kind = "array"
    /\ ListToSet(cache_file.ids) = seen_flat_ids

\* C5: save_seen_flats(force) writes the file only if the set has been
\* modified since the last save/load/reset and, in addition, force is true
\* or at least 10 ids have been added; otherwise it performs no write.
C5_WritesOnlyIfModified ==
    [][(ev'.op = "save_seen_flats" /\ (ev'.wrote \/ cache_file' # cache_file))
        => (cache_modified
            /\ (ev'.force \/ cache_write_counter >= CACHE_WRITE_THRESHOLD))]_vars

\* C6: load_seen_flats never raises; a missing, unreadable or invalid file,
\* or valid JSON of an unexpected shape (a number, an object without
\* "seen_ids"), leaves an empty set, the modified flag false, the counter 0.
C6_LoadNeverRaises ==
    ev.op = "load_seen_flats" =>
        /\ ~ev.raised
        /\ cache_file.kind \in {"missing", "unreadable", "invalid", "number",
                                "object_nokey"}
             => /\ seen_flat_ids = {}
                /\ cache_modified = FALSE
                /\ cache_write_counter = 0

\* C7: after load_seen_flats the seen set is exactly the ids listed in the
\* file, for a bare array and for an object {"seen_ids": [...]}.
C7_LoadEqualsFile ==
    (ev.op = "load_seen_flats" /\ cache_file.kind \in {"array", "object"})
        => \A x \in Ids : is_flat_seen(CacheNow, x) <=> ListedIn(cache_file, x)

\* the file {"seen_ids": [1, 2]} was loaded: 1 is seen, 3 is not
C7_Witness ==
    /\ ev.op = "load_seen_flats"
    /\ cache_file = File("object", <<1, 2>>)
    /\ is_flat_seen(CacheNow, 1)
    /\ ~is_flat_seen(CacheNow, 3)

(***************************************************************************)
(* Properties of the retry/backoff policy                                  *)
(***************************************************************************)
\* C8: after N consecutive failed requests of a source, N being the retry
\* ceiling max_retries = 3, backoff_time = min(60 * 2^N, 3600).  A failed
\* request is an invocation that reached the network and ended in an error;
\* an invocation rejected in cool-down issues no request.
C8_BackoffAfterNFailures ==
    \A s \in BackoffScrapers :
        failures[s] = max_retries
            => backoff_time[s]
                 = Min(InitialBackoff * Pow2(max_retries), max_backoff_time)

\* the third failure in a row has just been answered
C8_Witness ==
    /\ rq.op = "response"
    /\ rq.raised # "none"
    /\ failures[rq.scraper] = max_retries
    /\ rq.prev_errors = max_retries - 1
    /\ last_error_time[rq.scraper] = <<now>>

\* C9: a 200 response, whatever the failures before it, sets error_count to
\* 0 and backoff_time to 60 and clears last_error_time, so that an
\* invocation made next, at any time, is not in cool-down.
C9_SuccessResets ==
    (rq.op = "response" /\ rq.status = "200")
        => /\ error_count[rq.scraper] = 0
           /\ backoff_time[rq.scraper] = InitialBackoff
           /\ last_error_time[rq.scraper] = NoTime
           /\ \A t \in {now, MaxTime} : ~check_backoff(HealthOf(rq.scraper), t)

\* a 200 response arrived after two or more failures
C9_Witness ==
    /\ rq.op = "response"
    /\ rq.status = "200"
    /\ rq.prev_errors >= 2
    /\ error_count[rq.scraper] = 0

\* C10: an invocation of _make_request made while the time since the last
\* failure is less than backoff_time raises WebsiteUnavailableError with the
\* message "Retry in <backoff_time> seconds" and issues no network request.
C10_CoolingDownFailsFast ==
    [][\A s \in BackoffScrapers :
          (/\ rq'.op = "invoke"
           /\ rq'.scraper = s
           /\ last_error_time[s] # NoTime
           /\ now - last_error_time[s][1] < backoff_time[s])
          => /\ rq'.raised = "WebsiteUnavailableError"
             /\ rq'.retry_in = backoff_time[s]
             /\ rq'.sent = 0
             /\ call' = call]_vars

\* an invocation was rejected 60 s or more after the second failure in a row
C10_Witness ==
    /\ rq.op = "invoke"
    /\ rq.raised = "WebsiteUnavailableError"
    /\ rq.retry_in = 4 * InitialBackoff
    /\ last_error_time[rq.scraper] # NoTime
    /\ now - last_error_time[rq.scraper][1] >= InitialBackoff
    /\ call[rq.scraper][rq.caller].pc = "idle"

\* C11: when the server of a source has answered 429 three times in a row
\* and then answers 200, the invocation that receives the 200 returns the
\* body to its caller (no exception) and the source's backoff_time is 60
\* again.  Each 429 ends the invocation that received it with
\* HighTrafficError, so the answers go to successive invocations.
C11_BodyAfterThree429 ==
    (rq.op = "response" /\ rq.status = "200" /\ rq.prev_429 >= 3)
        => /\ rq.raised = "none"
           /\ call[rq.scraper][rq.caller] = Idle
           /\ backoff_time[rq.scraper] = InitialBackoff

\* a 200 answer follows three 429 answers that had raised backoff_time to
\* 480 s or more
C11_Witness ==
    /\ rq.op = "response"
    /\ rq.status = "200"
    /\ rq.prev_429 >= 3
    /\ rq.prev_errors >= 3
    /\ rq.raised = "none"
    /\ streak[rq.scraper] = 0

\* the statuses other than 200 the server answers with
ErrorStatuses == Responses \ {"200", "timeout", "client_error"}

\* C12: for a response whose status is not 2xx, _make_request raises
\* HighTrafficError iff the status is 503 or 429 and WebsiteUnavailableError
\* otherwise; in both cases backoff_time has been doubled (at most 3600),
\* error_count incremented and last_error_time set to the current time.
C12_TypedErrorAfterUpdate ==
    [][\A s \in BackoffScrapers :
          (/\ rq' # rq
           /\ rq'.op = "response"
           /\ rq'.scraper = s
           /\ rq'.status \in ErrorStatuses)
          => /\ (rq'.raised = "HighTrafficError")
                    <=> (rq'.status \in {"503", "429"})
             /\ (rq'.raised = "WebsiteUnavailableError")
                    <=> (rq'.status \notin {"503", "429"})
             /\ backoff_time'[s]
                    = (IF 2 * backoff_time[s] > max_backoff_time
                       THEN max_backoff_time ELSE 2 * backoff_time[s])
             /\ error_count'[s] = error_count[s] + 1
             /\ last_error_time'[s] = <<now>>]_vars

\* a 429 has raised HighTrafficError with the doubled backoff_time cut
\* down to the ceiling (1920 s doubled is 3840 s)
C12_Witness ==
    /\ rq.op = "response"
    /\ rq.status = "429"
    /\ rq.raised = "HighTrafficError"
    /\ rq.prev_errors = 5
    /\ backoff_time[rq.scraper] = max_backoff_time
    /\ last_error_time[rq.scraper] = <<now>>

\* C13: an invocation of _make_request makes at most max_retries = 3
\* network attempts: a timeout or a connection error on the first or the
\* second attempt is followed by a sleep of 2^attempt seconds and the next
\* attempt, the health state untouched; on the third attempt it updates the
\* backoff, raises WebsiteUnavailableError and the invocation is over.
C13_BoundedAttempts ==
    [][\A s \in BackoffScrapers, c \in Callers :
          (/\ rq' # rq
           /\ rq'.op \in {"response", "retry"}
           /\ rq'.scraper = s
           /\ rq'.caller = c)
          => /\ rq'.sent = call[s][c].sent + 1
             /\ rq'.sent <= max_retries
             /\ rq'.op = "response" => call'[s][c] = Idle
             /\ rq'.status \in {"timeout", "client_error"}
                  => IF rq'.sent < max_retries
                     THEN /\ rq'.op = "retry"
                          /\ rq'.retry_in = Pow2(rq'.sent - 1)
                          /\ call'[s][c].pc = "attempt"
                          /\ call'[s][c].sent = rq'.sent
                          /\ UNCHANGED healthVars
                     ELSE /\ rq'.op = "response"
                          /\ rq'.raised = "WebsiteUnavailableError"
                          /\ backoff_time'[s] > backoff_time[s]
                          /\ error_count'[s] = error_count[s] + 1
                          /\ last_error_time'[s] = <<now>>]_vars

\* the third attempt of an invocation has failed with a timeout, after the
\* sleeps of 1 s and 2 s
C13_Witness ==
    /\ rq.op = "response"
    /\ rq.status = "timeout"
    /\ rq.sent = max_retries
    /\ rq.raised = "WebsiteUnavailableError"
    /\ call[rq.scraper][rq.caller] = Idle
    /\ last_error_time[rq.scraper] = <<now>>

(***************************************************************************)
(* Properties of the fan-out                                               *)
(***************************************************************************)
\* the flats a result contributes to all_flats
Succeeded(r) == IF r.raised = "none" THEN r.flats ELSE <<>>

\* C14: one call of fetch_all_flats tries every scraper of the list exactly
\* once and in the order of the list, whatever an earlier scraper raised;
\* the list it returns is made of the flats of the scrapers that returned,
\* in that order, and the status of a scraper that raised is the text of
\* its failure.
C14_EverySourceOnce ==
    fanout.results # <<>> =>
        /\ fanout.attempted = FanScrapers
        /\ new_flats = Succeeded(fanout.results[1])
                            \o Succeeded(fanout.results[2])
                            \o Succeeded(fanout.results[3])
        /\ \A i \in DOMAIN FanScrapers :
              LET r == fanout.results[i]
                  status == website_statuses[FanScrapers[i]]
              IN /\ r.raised = "none" => status = "Available"
                 /\ r.raised \in {"WebsiteUnavailableError", "HighTrafficError"}
                        => status = r.msg
                 /\ r.raised = "TimeoutError"
                        => status = "Timeout - Website not responding"
                 /\ r.raised = "Exception" => status = "Error: " \o r.msg

\* the second of three scrapers raised an untyped exception, the first and
\* the third returned flats
C14_Witness ==
    /\ fanout.results # <<>>
    /\ fanout.results[2].raised = "Exception"
    /\ fanout.results[1].flats # <<>>
    /\ fanout.results[3].flats # <<>>
    /\ Len(new_flats) = Len(fanout.results[1].flats)
                            + Len(fanout.results[3].flats)
    /\ website_statuses[FanScrapers[2]]
            = "Error: 'NoneType' object has no attribute 'find'"
    /\ website_statuses[FanScrapers[3]] = "Available"

\* C15: after a cycle the status of a source whose request failed (timeout,
\* connection error, status other than 200) is a failure text, and a status
\* is "Available" only if the source's request of that cycle succeeded.
C15_AvailableOnlyAfterSuccess ==
    \A i \in DOMAIN fanout.upstream :
        /\ fanout.upstream[i].kind \in {"timeout", "status"}
              => website_statuses[Scrapers[i]] # "Available"
        /\ website_statuses[Scrapers[i]] = "Available"
              => fanout.upstream[i].kind \in {"page", "exception"}

\* the place of the first flat of the list with the id x
FirstIndex(flats, x) ==
    CHOOSE n \in DOMAIN flats :
        flats[n].id = x /\ \A m \in 1..(n - 1) : flats[m].id # x

\* C16: the list a scraper's fetch_flats returns holds no id twice; for a
\* page it is the first occurrence of every id among the candidates of the
\* page, in the order of the page.
C16_FirstOccurrencesOnly ==
    \A i \in DOMAIN fanout.upstream :
        LET given == fanout.upstream[i].flats
            kept == fanout.results[i].flats
        IN
        /\ \A j, k \in DOMAIN kept : kept[j].id = kept[k].id => j = k
        /\ fanout.upstream[i].kind = "page" =>
              /\ FlatIds(kept) = FlatIds(given)
              /\ \A k \in DOMAIN kept :
                    kept[k] = given[FirstIndex(given, kept[k].id)]
              /\ \A j, k \in DOMAIN kept :
                    j < k => FirstIndex(given, kept[j].id)
                                < FirstIndex(given, kept[k].id)

\* a page that lists the id 1 twice has yielded one record for it
C16_Witness ==
    /\ fanout.upstream # <<>>
    /\ fanout.upstream[1].kind = "page"
    /\ fanout.upstream[1].flats = <<F1, F2, F1>>
    /\ fanout.results[1].flats = <<F1, F2>>
    /\ new_flats = <<F1, F2>>

\* the flats the loop has sent to the chat or holds in the buffer
Surfaced == delivered \cup ListToSet(buffered_flats)

C18_FetchLeavesCacheAlone ==
    [][((pc = "init_fetch" /\ pc' = "send_buffered")
            \/ (pc = "fetch" /\ pc' = "process"))
        => /\ seen_flat_ids' = seen_flat_ids
           /\ cache_modified' = cache_modified
           /\ cache_write_counter' = cache_write_counter
           /\ \A i \in DOMAIN fanout'.upstream :
                 fanout'.upstream[i].kind = "page"
                   => /\ FlatIds(fanout'.results[i].flats)
                            = FlatIds(fanout'.upstream[i].flats)
                      /\ FlatIds(fanout'.upstream[i].flats)
                            \subseteq FlatIds(IF pc = "fetch" THEN new_flats'
                                              ELSE current_flats')]_vars

\* the ids 1 and 2 were loaded from the cache file, and a fetch has
\* returned the listings 1 and 2
C18_Witness ==
    /\ pc = "process"
    /\ fanout.upstream # <<>>
    /\ fanout.upstream[1].kind = "page"
    /\ seen_flat_ids = {1, 2}
    /\ FlatIds(new_flats) = {1, 2}
    /\ ~cache_modified

\* C19: the id of every listing the loop has forwarded to send_update is
\* in the seen set.
C19_ForwardedIsSeen == forwarded \subseteq seen_flat_ids

(***************************************************************************)
(* Properties of main()                                                    *)
(***************************************************************************)
\* C20: when main() is over, whatever ended it, save_seen_flats(force=True)
\* has been executed.
C20_SavedOnShutdown == main.pc = "ended" => main.saved

(***************************************************************************)
(* Properties of the dedup cache: failures of the file system              *)
(***************************************************************************)
\* save_seen_flats(force) gets as far as opening the file
SaveIsDue(c, force) ==
    force \/ (c.modified /\ c.counter >= CACHE_WRITE_THRESHOLD)

\* C21: when save_seen_flats gets as far as writing the file and the write
\* fails (open() or json.dump raises IOError), no exception reaches the
\* caller and the seen set, the modified flag and the write counter are as
\* before, so that the same save made again, the file system working,
\* writes every id of the set.
C21_FailedSaveKeepsPending ==
    [][(/\ ev'.op = "save_seen_flats"
        /\ SaveIsDue(CacheNow, ev'.force)
        /\ ~ev'.wrote)
       => /\ ~ev'.raised
          /\ seen_flat_ids' = seen_flat_ids
          /\ cache_modified' = cache_modified
          /\ cache_write_counter' = cache_write_counter
          /\ \A rev \in BOOLEAN :
                LET c == Cache(seen_flat_ids', cache_modified',
                               cache_write_counter', cache_file')
                    again == save_seen_flats(c, ev'.force, "ok", rev)
                IN /\ again.wrote
                   /\ again.file.kind = "array"
                   /\ ListToSet(again.file.ids) = seen_flat_ids]_vars

\* an unforced save of ten pending ids has failed after truncating the
\* file: the ids are still pending
C21_Witness ==
    /\ ev.op = "save_seen_flats"
    /\ ~ev.force
    /\ ~ev.wrote
    /\ ~ev.raised
    /\ cache_modified
    /\ cache_write_counter >= CACHE_WRITE_THRESHOLD
    /\ seen_flat_ids # {}
    /\ cache_file.kind = "invalid"

\* C22: after reset_seen_flats returns, is_flat_seen is false for every
\* id, the modified flag is false, the write counter is 0, and a
\* load_seen_flats made next yields an empty set.
C22_ResetClearsFileToo ==
    ev.op = "reset_seen_flats" =>
        /\ \A x \in Ids : ~is_flat_seen(CacheNow, x)
        /\ cache_modified = FALSE
        /\ cache_write_counter = 0
        /\ ~load_seen_flats(CacheNow).raised
        /\ load_seen_flats(CacheNow).seen = {}

(***************************************************************************)
(* Properties of the extractors                                            *)
(***************************************************************************)
\* a candidate that carries an id and a title and can be read
WellFormed(c) == c.shape = "ok" /\ c.id # "" /\ c.title # <<>>

\* C23: when a payload holds a malformed candidate, fetch_flats raises
\* nothing and returns a record for every well-formed candidate of the
\* payload (for InBerlinWohnen: for every well-formed snapshot).
C23_OnlyTheCandidateIsSkipped ==
    extracted.scraper # "none" =>
        /\ extracted.result.raised = "none"
        /\ \A i \in DOMAIN extracted.payload :
              LET c == extracted.payload[i] IN
              (/\ WellFormed(c)
               /\ extracted.scraper = "InBerlinWohnenScraper"
                    => c.via = "livewire")
              => c.id \in FlatIds(extracted.result.flats)

\* C24: whatever the poll and the process run, an extractor derives one
\* and the same id for one upstream listing.
C24_OneIdPerListing ==
    \A k \in Keys : Cardinality(derived[k]) <= 1

\* C25: every record fetch_flats returns has a non-empty id and a
\* non-empty source.
C25_IdAndSourceNotEmpty ==
    \A i \in DOMAIN extracted.result.flats :
        /\ extracted.result.flats[i].id # ""
        /\ extracted.result.flats[i].source # ""

\* C26: no record an extractor returns has an attribute with an empty
\* value; a field absent upstream has no key in details.
C26_NoEmptyValues ==
    \A i \in DOMAIN extracted.result.flats :
        LET details == extracted.result.flats[i].details IN
        \A k \in DOMAIN details : details[k] # <<>>

\* the negation phrases: those listed in check_wbs_required, and "wbs"
\* followed by one of the words nein, no, nicht
NegationPhrases ==
    not_required_patterns
        \cup {<<"wbs", "nein">>, <<"wbs", "no">>, <<"wbs", "nicht">>}

\* C27: check_wbs_required(T) is true iff T mentions "wbs" as a word or
\* "wohnberechtigungsschein" and holds no negation phrase.
C27_TrueIffKeywordNotNegated ==
    checked.op = "check_wbs_required" =>
        (checked.result
            <=> (/\ \E i \in DOMAIN checked.text :
                       checked.text[i] \in {"wbs", "wohnberechtigungsschein"}
                 /\ ~\E phrase \in NegationPhrases :
                       HasPhrase(checked.text, phrase)))

\* the keys of details in the order of insertion
DetailKeys == <<"address", "rooms", "area", "features", "object_id">>

\* the values of details from the n-th key on, concatenated
RECURSIVE ValuesFrom(_, _)
ValuesFrom(details, n) ==
    IF n > Len(DetailKeys)
    THEN <<>>
    ELSE (IF DetailKeys[n] \in DOMAIN details
          THEN details[DetailKeys[n]] ELSE <<>>)
             \o ValuesFrom(details, n + 1)

\* C28: for every record an extractor returns, wbs_required is
\* check_wbs_required of the title and all attribute values concatenated.
C28_FlagOfConcatenation ==
    \A i \in DOMAIN extracted.result.flats :
        LET flat == extracted.result.flats[i] IN
        flat.wbs_required
            = check_wbs_required(flat.title \o ValuesFrom(flat.details, 1))

(***************************************************************************)
(* Properties of the dedup cache: marking                                  *)
(***************************************************************************)
\* C29: whatever calls of the cache precede it, a mark of an id that is in
\* the seen set leaves the set, the modified flag, the write counter and
\* the file as they are; a mark, single or of a list, adds 1 to the
\* counter for every id it adds to the set and nothing else.
C29_MarkIsIdempotent ==
    [][/\ (ev'.op = "mark_flat_seen" /\ ev'.id \in seen_flat_ids)
            => UNCHANGED cacheVars
       /\ ev'.op \in {"mark_flat_seen", "mark_flats_as_seen"}
            => /\ seen_flat_ids \subseteq seen_flat_ids'
               /\ cache_write_counter'
                     = cache_write_counter
                         + Cardinality(seen_flat_ids' \ seen_flat_ids)
               /\ seen_flat_ids' = seen_flat_ids => UNCHANGED cacheVars
               /\ ~ev'.raised]_vars

\* an id that was loaded from the file has been marked: the cache is
\* still unmodified and nothing is pending
C29_Witness ==
    /\ ev.op = "mark_flat_seen"
    /\ loaded
    /\ ev.id \in seen_flat_ids
    /\ ListedIn(cache_file, ev.id)
    /\ ~cache_modified
    /\ cache_write_counter = 0

(***************************************************************************)
(* Properties of the monitoring loop: the health of the sources            *)
(***************************************************************************)
\* C30: after a cycle in which the request of a configured source has
\* failed (a timeout, a status other than 200), the source's error_count,
\* backoff_time and last_error_time have been updated, so that a fetch
\* made during the cool-down issues no request.
C30_FailureStartsCoolDown ==
    \A i \in DOMAIN fanout.upstream :
        fanout.upstream[i].kind \in {"status", "timeout"}
            => /\ error_count[Scrapers[i]] > 0
               /\ backoff_time[Scrapers[i]] > InitialBackoff
               /\ last_error_time[Scrapers[i]] # NoTime

(***************************************************************************)
(* Properties of the dedup cache: what a save does to the file and to the  *)
(* pending writes                                                          *)
(***************************************************************************)
\* the ids a cache file holds
IdsOf(f) == IF f.kind \in {"array", "object"} THEN ListToSet(f.ids) ELSE {}

\* C37: every write of the cache file by save_seen_flats, the forced saves
\* of the error and shutdown paths of main() made before load_seen_flats
\* has run included, leaves in the file every id the file held before the
\* write (no reset_seen_flats is made in between: main() makes none).
C37_SaveKeepsPersistedIds ==
    [][(ev'.op = "save_seen_flats" /\ cache_file' # cache_file)
          => IdsOf(cache_file) \subseteq IdsOf(cache_file')]_vars

\* C38: in every state the modified flag is true iff the write counter is
\* greater than 0, and every call leaves the counter at the number of ids
\* added to the set since the last save that wrote the file, the last
\* load that returned or the last reset: such a call sets it to 0, every
\* other call adds the number of ids it adds to the set.
C38_CounterCountsPendingIds ==
    /\ (cache_modified <=> cache_write_counter > 0)
    /\ [][/\ (cache_modified' <=> cache_write_counter' > 0)
          /\ cache_write_counter' =
                IF \/ (ev'.op = "save_seen_flats" /\ ev'.wrote)
                   \/ (ev'.op = "load_seen_flats" /\ ~ev'.raised)
                   \/ ev'.op = "reset_seen_flats"
                THEN 0
                ELSE cache_write_counter
                        + Cardinality(seen_flat_ids' \ seen_flat_ids)]_vars

\* an id is pending that was marked after a save has written two others
C38_Witness ==
    /\ ev.op = "mark_flat_seen"
    /\ cache_modified
    /\ cache_write_counter = 1
    /\ Cardinality(seen_flat_ids) = 3
    /\ cache_file.kind = "array"
    /\ IdsOf(cache_file) = seen_flat_ids \ {ev.id}

\* C39: a save_seen_flats(force=True) that writes the file leaves the seen
\* set as it is, and the load_seen_flats that follows it returns with the
\* same seen set, the modified flag false and the write counter 0.
C39_SaveThenLoadRestores ==
    [][/\ (ev'.op = "save_seen_flats" /\ ev'.force /\ ev'.wrote)
            => seen_flat_ids' = seen_flat_ids
       /\ (/\ ev.op = "save_seen_flats" /\ ev.force /\ ev.wrote
           /\ ev'.op = "load_seen_flats")
            => /\ ~ev'.raised
               /\ seen_flat_ids' = seen_flat_ids
               /\ cache_modified' = FALSE
               /\ cache_write_counter' = 0]_vars

\* a forced save has written a set of several ids, some of them pending,
\* and the load after it has returned the same set
C39_Witness ==
    /\ ev.op = "load_seen_flats"
    /\ ~ev.raised
    /\ cache_file.kind = "array"
    /\ Cardinality(seen_flat_ids) >= 3
    /\ \E x \in seen_flat_ids : marked[x] = "marked"
    /\ Len(cache_file.ids) = Cardinality(seen_flat_ids)
    /\ cache_file.ids[1] > cache_file.ids[2]

(***************************************************************************)
(* Properties of the retry/backoff policy: the health state                *)
(***************************************************************************)
\* C35: in every state of a scraper, two callers fetching concurrently
\* from it, backoff_time lies between 60 and 3600 and is
\* min(60 * 2^error_count, 3600), and error_count is 0 iff last_error_time
\* is unset iff backoff_time is 60.
C35_HealthInvariant ==
    \A s \in HealthScrapers :
        /\ InitialBackoff <= backoff_time[s]
        /\ backoff_time[s] <= max_backoff_time
        /\ backoff_time[s]
              = Min(InitialBackoff * Pow2(error_count[s]), max_backoff_time)
        /\ (error_count[s] = 0) <=> (last_error_time[s] = NoTime)
        /\ (error_count[s] = 0) <=> (backoff_time[s] = InitialBackoff)

\* two calls were under way at once and both have failed, and the errors
\* have been counted beyond the point where the doubling meets the ceiling
C35_Witness ==
    /\ rq.op = "response"
    /\ rq.raised # "none"
    /\ rq.prev_errors = 5
    /\ error_count["DegewoScraper"] = 6
    /\ InitialBackoff * Pow2(6) > max_backoff_time
    /\ backoff_time["DegewoScraper"] = max_backoff_time
    /\ last_error_time["DegewoScraper"] = <<now>>

\* C36: an invocation rejected because the source is cooling down leaves
\* error_count, backoff_time and last_error_time as they are, and an
\* invocation made when backoff_time seconds or more have passed since
\* the last failure is not rejected: it goes on to a network attempt.
C36_RejectionChangesNothing ==
    [][(rq'.op = "invoke" /\ now' = now)
          => LET s == rq'.scraper
                 c == rq'.caller
             IN /\ rq'.raised = "WebsiteUnavailableError"
                      => /\ UNCHANGED healthVars
                         /\ UNCHANGED call
                         /\ last_error_time[s] # NoTime
                         /\ now - last_error_time[s][1] < backoff_time[s]
                /\ (/\ call[s][c].pc = "idle"
                    /\ last_error_time[s] # NoTime
                    /\ now - last_error_time[s][1] >= backoff_time[s])
                      => /\ rq'.raised = "none"
                         /\ call'[s][c].pc = "attempt"]_vars

\* after two failures the source has been invoked when exactly
\* backoff_time seconds had passed, and the call went on to the network
C36_Witness ==
    /\ rq.op = "invoke"
    /\ rq.raised = "none"
    /\ rq.prev_errors = 2
    /\ last_error_time[rq.scraper] # NoTime
    /\ now - last_error_time[rq.scraper][1] = backoff_time[rq.scraper]
    /\ call[rq.scraper][rq.caller].pc = "attempt"

\* C34: the outcome of a request changes error_count, backoff_time and
\* last_error_time of the source the request was made to and of no other
\* source, and an invocation is rejected only when the source it is made to
\* is cooling down itself.
C34_HealthIsPerSource ==
    [][\A s \in HealthScrapers :
          /\ (\/ last_error_time'[s] # last_error_time[s]
              \/ error_count'[s] # error_count[s]
              \/ backoff_time'[s] # backoff_time[s])
                => (rq'.op = "response" /\ rq'.scraper = s)
          /\ (/\ rq'.op = "invoke"
              /\ now' = now
              /\ rq'.scraper = s
              /\ rq'.raised = "WebsiteUnavailableError")
                => /\ last_error_time[s] # NoTime
                   /\ now - last_error_time[s][1] < backoff_time[s]]_vars

\* while DegewoScraper is cooling down after two failures, GesobauScraper
\* has been invoked and its request has gone to the network
C34_Witness ==
    /\ rq.op = "invoke"
    /\ rq.scraper = "GesobauScraper"
    /\ rq.raised = "none"
    /\ call["GesobauScraper"]["monitor"].pc = "attempt"
    /\ error_count["DegewoScraper"] = 2
    /\ last_error_time["DegewoScraper"] # NoTime
    /\ now - last_error_time["DegewoScraper"][1] < backoff_time["DegewoScraper"]
    /\ error_count["GesobauScraper"] = 0

(***************************************************************************)
(* Properties of the monitoring loop: the allowed hours                    *)
(***************************************************************************)
\* C40: the loop sends flats to the chat only when the hour is between 8
\* and 20 (8 <= hour < 20).  Outside these hours the flats a cycle finds
\* new, the filters passed, are appended to the buffer and nothing is
\* sent.  A cycle that starts within the allowed hours sends flats of the
\* buffer only, no listing more than once however many messages get
\* through, and leaves the buffer empty; a cycle that starts outside
\* leaves the buffer as it is.
C40_NotifiesOnlyInAllowedHours ==
    [][/\ (delivered' \ delivered # {}) => (8 <= hour /\ hour < 20)
       /\ (pc = "process" /\ pc' = "sleep" /\ ~(8 <= hour /\ hour < 20))
            => /\ delivered' = delivered
               /\ buffered_flats' =
                     buffered_flats
                        \o SelectSeq(NewEntries(current_flats, new_flats),
                                     PassesFilters)
       /\ (pc = "send_buffered" /\ pc' = "fetch")
            => IF 8 <= hour /\ hour < 20
               THEN /\ buffered_flats' = <<>>
                    /\ delivered' \ delivered \subseteq ListToSet(buffered_flats)
                    /\ \A k \in 0..Len(buffered_flats) :
                          LET sent == send_buffered_flats(buffered_flats,
                                                          hour, k).sent
                          IN \A i, j \in DOMAIN sent :
                                sent[i].id = sent[j].id => i = j
               ELSE /\ buffered_flats' = buffered_flats
                    /\ delivered' = delivered]_vars

(***************************************************************************)
(* Properties of the monitoring loop: novelty                              *)
(***************************************************************************)
\* C31: whatever /list, /status or /clear commands are handled while a
\* cycle fetches, the cycle finds new every flat of its snapshot whose id
\* is not in the snapshot of the loop's previous cycle (of the initial
\* fetch, in the first cycle).
C31_NewAgainstOwnSnapshot ==
    [][(pc = "process" /\ pc' = "sleep")
          => \A i \in DOMAIN new_flats :
                new_flats[i].id \notin FlatIds(baseline)
                   => \E j \in DOMAIN NewEntries(current_flats, new_flats) :
                         NewEntries(current_flats, new_flats)[j]
                            = new_flats[i]]_vars

InCycle == {"send_buffered", "fetch", "process", "error", "sleep"}

\* C33: once in the loop, the monitoring task leaves it only by being
\* cancelled, whatever fails inside a cycle (a fetch that raises, a
\* message that cannot be sent, a save that fails, an exception caught by
\* the handler of the loop); after every cycle, failed or not, the loop
\* sleeps and starts the next cycle, unless the task is cancelled first.
C33_LoopGoesOn ==
    /\ [][(pc \in InCycle)
             => \/ pc' \in InCycle
                \/ (pc' = "cancelled" /\ main.pc = "finally")]_vars
    /\ [][(pc \in {"process", "error"})
             => pc' \in {pc, "error", "sleep", "cancelled"}]_vars
    /\ \A p \in InCycle :
          (pc = p) ~> (pc \in {"send_buffered", "cancelled"})

\* the handler of the loop has caught an exception raised in a cycle in
\* which a fetch had failed before and flats had been sent
C33_Witness ==
    /\ pc = "error"
    /\ main.pc = "polling"
    /\ delivered # {}
    /\ \E i \in DOMAIN fanout.results : fanout.results[i].raised # "none"

====
